---- MODULE Spec2Model ----
(***************************************************************************)
(* A model of SenzingGo.py: the deployment run of main() from the          *)
(* reachability checks on (tag resolution, image pulls and local fallback, *)
(* INI translation, database checks, container starts with status and      *)
(* health polling, final report), specification Spec; the function        *)
(* patch_ini_json on its own, specification SpecTranslate; docker_net,     *)
(* containers_stop_remove and the mode dispatch of main() up to the first  *)
(* docker_run, on an engine that holds containers and networks and on      *)
(* which the command is run again, specification SpecTeardown; save_images *)
(* and load_images, specification SpecPackage; internet_access on given    *)
(* outcomes of its attempts, specification SpecAccess; docker_run with its  *)
(* waits taken turn by turn, specification SpecWait; internet_access and   *)
(* get_api_spec taken attempt by attempt, specification SpecRetry.         *)
(*                                                                         *)
(* Text is modelled as a sequence of tokens. A token is a separator        *)
(* (":", "@", "/", "//") or a whole name ("sqlite3", "opt", "G2C.db"), so  *)
(* str.split, str.replace and the path algebra act on tokens the way the   *)
(* Python code acts on characters, matching whole names only.              *)
(* Image tags are sequences of character codes, so that they can be        *)
(* compared the way Python compares strings.                               *)
(***************************************************************************)
EXTENDS Integers, Sequences, FiniteSets, TLC

VARIABLES
    pc,          \* position of main()
    exit,        \* how the process ended: "none" while running
    args,        \* the parsed command line (never assigned after parse_args)
    ini_json,    \* the INI file as read by convert_ini2json
    patched,     \* [db_type, ini, mount] returned by patch_ini_json
    printed,     \* directories listed by patch_ini_json's co-location error
    net,         \* access_versions, access_dockerhub and versions, once known;
                 \* attempts: what urlopen does at each attempt, when given;
                 \* api_spec: how get_api_spec ended, once called; call,
                 \* made, pauses: the call running, the attempts each call
                 \* made and the sleeps of get_api_spec, when the calls are
                 \* taken attempt by attempt
    dc,          \* docker_containers: tag, imageavailable, imagepulled, startedok
    images,      \* the engine's image store: per image name, the RepoTags lists
    cont,        \* per service: what docker_run did with and saw of its container
    started,     \* the containers.run calls issued so far, in order
    pulled,      \* the images.pull calls issued so far
    reported,    \* the services whose URL the final report shows
    failures,    \* operations of the environment that failed in this run
    flags,       \* the mode options of the command line (contStop, info, ...)
    engine,      \* the engine's containers and networks, by name
    teardown,    \* containers_stop_remove: its calls, parameters, list and loop
    engine_calls, \* this run's engine calls on containers and networks, in order
    package,     \* save_images and load_images: request, lists and loop position
    files,       \* the files below the package path and the extract path
    target       \* the image store of the system an archive is loaded into

\* What a deployment run works on, what the clean-up works on, what the
\* packaging of images works on.
deployment == <<args, ini_json, patched, printed, net, dc, images, cont, pulled, reported>>
lifecycle == <<flags, engine, teardown, engine_calls>>
packaging == <<package, files, target>>

\* ------------------------------------------------------------------ bounds

\* Runs of the program on one engine, one after the other.
MaxRuns == 2
\* Image references given with --saveImages.
MaxImages == 2

\* Entries of the [HYBRID] section (tables mapped to a cluster key).
MaxTables == 2
\* Command-line options the caller gives in one run.
MaxOptions == 1
\* Operations of the environment (a reachability check, a download, a pull,
\* a file operation, a container start, a wait) that fail in one run.
MaxFailures == 1

\* ------------------------------------------------------------ text helpers

NoValue == <<"None">>

RECURSIVE IndexOf(_, _)
\* str.find on tokens: the first position of tok in s, 0 when absent.
IndexOf(s, tok) ==
    IF s = <<>> THEN 0
    ELSE IF Head(s) = tok THEN 1
    ELSE LET i == IndexOf(Tail(s), tok) IN IF i = 0 THEN 0 ELSE i + 1

\* str.split(sep, 1): a list of one element when sep is absent, else two.
Split1(s, sep) ==
    LET i == IndexOf(s, sep)
    IN  IF i = 0 THEN <<s>>
        ELSE <<SubSeq(s, 1, i - 1), SubSeq(s, i + 1, Len(s))>>

RECURSIVE ReplaceAll(_, _, _)
\* str.replace(old, new): every non-overlapping occurrence, left to right.
ReplaceAll(s, old, new) ==
    IF Len(s) < Len(old) \/ old = <<>> THEN s
    ELSE IF SubSeq(s, 1, Len(old)) = old
         THEN new \o ReplaceAll(SubSeq(s, Len(old) + 1, Len(s)), old, new)
         ELSE <<Head(s)>> \o ReplaceAll(Tail(s), old, new)

\* str.lower on one token.
LowerTok(t) ==
    CASE t = "SQLITE3" -> "sqlite3"
      [] t = "MSSQL"   -> "mssql"
      [] t = "MYSQL"   -> "mysql"
      [] t = "DB2"     -> "db2"
      [] t = "HYBRID"  -> "hybrid"
      [] OTHER         -> t

\* str.lower on a text.
Lower(s) == [i \in 1..Len(s) |-> LowerTok(s[i])]

\* --------------------------------------------------------- the file system

\* The working directory of the process and the symbolic links of the host,
\* both as lists of directory names below the root.
Cwd == <<"d">>
SymLinks == [p \in {<<"l">>} |-> <<"d">>]

RECURSIVE Segments(_)
\* pathlib.Path(text).parts without the root: the names between separators,
\* "." dropped.
Segments(s) ==
    IF s = <<>> THEN <<>>
    ELSE IF Head(s) \in {"/", "."} THEN Segments(Tail(s))
    ELSE <<Head(s)>> \o Segments(Tail(s))

IsAbsolute(s) == s # <<>> /\ Head(s) = "/"

RECURSIVE Walk(_, _)
\* os.path.realpath: follow the names one by one from directory at, stepping
\* up on "..", following a symbolic link as soon as it is reached.
Walk(at, segs) ==
    IF segs = <<>> THEN at
    ELSE IF Head(segs) = ".."
         THEN Walk(IF at = <<>> THEN <<>> ELSE SubSeq(at, 1, Len(at) - 1), Tail(segs))
         ELSE LET to == at \o <<Head(segs)>>
              IN  Walk(IF to \in DOMAIN SymLinks THEN SymLinks[to] ELSE to, Tail(segs))

\* Path(text).resolve(): the absolute, link-free list of names.
Resolve(s) == Walk(IF IsAbsolute(s) THEN <<>> ELSE Cwd, Segments(s))

\* Path.parent: the root is its own parent.
Parent(names) == IF names = <<>> THEN <<>> ELSE SubSeq(names, 1, Len(names) - 1)

RECURSIVE PathStr(_)
\* str(Path): "/" alone for the root, else "/name" for every name.
PathStr(names) ==
    IF names = <<>> THEN <<"/">>
    ELSE IF Len(names) = 1 THEN <<"/", names[1]>>
    ELSE <<"/", Head(names)>> \o PathStr(Tail(names))

\* ------------------------------------------------------------------- JSON

\* json.dumps escapes every non-ASCII character as \uXXXX (ensure_ascii);
\* json.loads reverses it.
\* The token "e_acute" stands for a directory name written with the letter
\* U+00E9.
JsonEscapeTok(t) == IF t = "e_acute" THEN "\\u00e9" ELSE t
JsonUnescapeTok(t) == IF t = "\\u00e9" THEN "e_acute" ELSE t
JsonDumps(s) == [i \in 1..Len(s) |-> JsonEscapeTok(s[i])]
JsonLoads(s) == [i \in 1..Len(s) |-> JsonUnescapeTok(s[i])]

\* --------------------------------------------------------- patch_ini_json

DataPath   == <<"/", "opt", "/", "senzing", "/", "data">>
EtcPath    == <<"/", "etc", "/", "opt", "/", "senzing">>
MountPoint == <<"/", "var", "/", "opt", "/", "senzing">>

\* The split without the ValueError handler: a string without ":" is taken
\* whole.
type_connection_split_unchecked(connection_string) ==
    LET parts == Split1(connection_string, ":")
    IN  [err |-> "none", dbtype |-> parts[1], connection |-> parts[Len(parts)]]

\* type_connection_split: [err, dbtype, connection]; err = "exit1" is the
\* sys.exit(1) of the ValueError handler.
type_connection_split(connection_string) ==
    LET parts == Split1(connection_string, ":")
    IN  IF Len(parts) = 1
        THEN [err |-> "exit1", dbtype |-> <<>>, connection |-> <<>>]
        ELSE [err |-> "none", dbtype |-> parts[1], connection |-> parts[2]]

\* get_path: [err, path]. When "@" is absent the ValueError handler formats
\* its message with conn_str, which the failed unpacking never bound: the
\* handler raises UnboundLocalError and the process ends on that exception.
get_path(connection_string) ==
    LET t == type_connection_split(connection_string)
        parts == Split1(t.connection, "@")
    IN  IF t.err # "none" THEN [err |-> t.err, path |-> <<>>]
        ELSE IF Len(parts) = 1 THEN [err |-> "exception", path |-> <<>>]
        ELSE [err |-> "none", path |-> PathStr(Parent(Resolve(parts[2])))]

\* ini_json['SQL'].get('backend') and its .lower() == 'hybrid'
IsHybrid(ini) == ini.SQL.backend # NoValue /\ Lower(ini.SQL.backend) = <<"hybrid">>

\* unique_cluster_keys: the distinct values of the [HYBRID] section
unique_cluster_keys(ini) == {ini.HYBRID[i] : i \in DOMAIN ini.HYBRID}

\* unique_path_list, as a set: the directory of every referenced cluster's
\* db_1 and of the base connection (all of them parse when this is used).
unique_path_list(ini) ==
    {get_path(ini.CLUSTER[k]).path : k \in unique_cluster_keys(ini)}
        \cup {get_path(ini.SQL.connection).path}

\* The orders in which list(set(...)) can hand out the members of S.
Orders(S) ==
    {q \in [1..Cardinality(S) -> S] : \A i, j \in DOMAIN q : i # j => q[i] # q[j]}

\* json.loads(json.dumps(ini_json).replace(host, '/var/opt/senzing')) on one
\* text value of the configuration.
Substitute(v, host) ==
    IF v = NoValue THEN v ELSE JsonLoads(ReplaceAll(JsonDumps(v), host, MountPoint))

\* The configuration after lines 821-823: two keys rewritten, one deleted.
FixPipeline(ini) ==
    [ini EXCEPT !.PIPELINE = [supportpath |-> DataPath, configpath |-> EtcPath]]

\* The whole-configuration text substitution of line 865.
SubstituteAll(ini, host) ==
    [PIPELINE |-> [supportpath |-> Substitute(ini.PIPELINE.supportpath, host),
                   configpath  |-> Substitute(ini.PIPELINE.configpath, host)],
     SQL      |-> [connection |-> Substitute(ini.SQL.connection, host),
                   backend    |-> Substitute(ini.SQL.backend, host)],
     HYBRID   |-> [i \in DOMAIN ini.HYBRID |-> Substitute(<<ini.HYBRID[i]>>, host)[1]],
     CLUSTER  |-> [k \in DOMAIN ini.CLUSTER |-> Substitute(ini.CLUSTER[k], host)]]

\* sqlite_mount = None
NoMount == [host |-> <<>>, bind |-> <<>>, mode |-> "none"]

\* A call that ended the process: how ("exit1" for sys.exit(1), "exception"
\* for an uncaught exception) and the directories it listed before.
Failed(how, listing) ==
    [status |-> how, db_type |-> <<>>, ini |-> <<>>, mount |-> NoMount,
     printed |-> listing]

Returned(dbtype, ini, mount) ==
    [status |-> "ok", db_type |-> dbtype, ini |-> ini, mount |-> mount,
     printed |-> <<>>]

\* The binding with the mode of a read-only volume.
mount_read_only(host) == [host |-> host, bind |-> MountPoint, mode |-> "ro"]

\* mount_in_cont of line 868
mount_in_cont(host) == [host |-> host, bind |-> MountPoint, mode |-> "rw"]

\* The sqlite3 branch once the host directory is known (lines 863-870).
SqliteReturn(dbtype, ini, host) ==
    Returned(dbtype, SubstituteAll(FixPipeline(ini), host), mount_in_cont(host))

\* The hybrid branch printing one directory only when the files diverge.
HybridOutcomesListingOne(dbtype, ini) ==
    LET shardErrs == {get_path(ini.CLUSTER[k]).err : k \in unique_cluster_keys(ini)}
                        \ {"none"}
        base == get_path(ini.SQL.connection)
        dirs == unique_path_list(ini)
    IN  IF shardErrs # {} THEN {Failed(e, <<>>) : e \in shardErrs}
        ELSE IF base.err # "none" THEN {Failed(base.err, <<>>)}
        ELSE IF Cardinality(dirs) > 1 THEN {Failed("exit1", <<q[1]>>) : q \in Orders(dirs)}
        ELSE {SqliteReturn(dbtype, ini, CHOOSE d \in dirs : TRUE)}

\* The hybrid branch (lines 834-857). The list comprehension of line 847
\* walks the cluster strings in set order, the base string last, and stops
\* at the first one that does not parse.
HybridOutcomes(dbtype, ini) ==
    LET shardErrs == {get_path(ini.CLUSTER[k]).err : k \in unique_cluster_keys(ini)}
                        \ {"none"}
        base == get_path(ini.SQL.connection)
        dirs == unique_path_list(ini)
    IN  IF shardErrs # {} THEN {Failed(e, <<>>) : e \in shardErrs}
        ELSE IF base.err # "none" THEN {Failed(base.err, <<>>)}
        ELSE IF Cardinality(dirs) > 1 THEN {Failed("exit1", q) : q \in Orders(dirs)}
        ELSE {SqliteReturn(dbtype, ini, CHOOSE d \in dirs : TRUE)}

\* patch_ini_json: the set of results the call can have on ini (more than one
\* only where the iteration order of a Python set decides).
patch_ini_json(ini) ==
    LET t == type_connection_split(ini.SQL.connection)
        base == get_path(ini.SQL.connection)
    IN  IF t.err # "none" THEN {Failed(t.err, <<>>)}
        ELSE IF Lower(t.dbtype) = <<"sqlite3">>
             THEN IF IsHybrid(ini) THEN HybridOutcomes(t.dbtype, ini)
                  ELSE IF base.err # "none" THEN {Failed(base.err, <<>>)}
                  ELSE {SqliteReturn(t.dbtype, ini, base.path)}
        ELSE {Returned(t.dbtype, FixPipeline(ini), NoMount)}

\* --------------------------------------------------------- configurations

ClusterKeys == {"C1", "C2"}

\* A connection string scheme://na:na@path, and three malformed ones.
Conn(scheme, path)          == <<scheme, ":", "//", "na", ":", "na", "@">> \o path
ConnNoColon(scheme, path)   == <<scheme, "//", "na", "@">> \o path
ConnNoAt(scheme, path)      == <<scheme, ":", "//", "na", ":", "na">> \o path
ConnNoScheme(scheme, path)  == <<scheme, "//", "na", ":", "na", "@">> \o path

\* Written database paths: plain, through "..", relative to the working
\* directory, through a symbolic link, under a canonical in-container path,
\* in the root directory, under a non-ASCII name.
PlainPaths ==
    {<<"/", "d", "/", "G2C.db">>, <<"/", "d", "/", "S1.db">>,
     <<"/", "e", "/", "S2.db">>}
OddPaths ==
    {<<"/", "d", "/", "..", "/", "e", "/", "S3.db">>,
     <<"S4.db">>,
     <<"/", "l", "/", "S5.db">>,
     <<"/", "opt", "/", "senzing", "/", "G2C.db">>,
     <<"/", "G2C.db">>,
     <<"/", "e_acute", "/", "G2C.db">>}
WrittenPaths == PlainPaths \cup OddPaths

SqliteSchemes == {"sqlite3", "SQLITE3"}
OtherSchemes  == {"mysql", "postgresql", "db2", "mssql", "MSSQL", "nosuchdb"}

Malformed(scheme) ==
    {ConnNoColon(scheme, <<"/", "d", "/", "G2C.db">>),
     ConnNoAt(scheme, <<"/", "d", "/", "G2C.db">>),
     ConnNoScheme(scheme, <<"/", "d", "/", "G2C.db">>)}

SqliteConns ==
    UNION {{Conn(s, p) : p \in WrittenPaths} \cup Malformed(s) : s \in SqliteSchemes}
OtherConns ==
    UNION {{Conn(s, <<"host", "/", "G2">>)} \cup Malformed(s) : s \in OtherSchemes}
ShardConns ==
    {Conn("sqlite3", p) : p \in WrittenPaths}
        \cup {ConnNoColon("sqlite3", <<"/", "d", "/", "S1.db">>),
              ConnNoAt("sqlite3", <<"/", "d", "/", "S1.db">>)}

HybridSections == UNION {[1..n -> ClusterKeys] : n \in 0..MaxTables}

Ini(conn, backend, hybrid, cluster) ==
    [PIPELINE |-> [supportpath  |-> <<"/", "p", "/", "data">>,
                   configpath   |-> <<"/", "p", "/", "etc">>,
                   resourcepath |-> <<"/", "p", "/", "resources">>],
     SQL      |-> [connection |-> conn, backend |-> backend],
     HYBRID   |-> hybrid,
     CLUSTER  |-> cluster]

DefaultCluster ==
    [k \in ClusterKeys |->
        IF k = "C1" THEN Conn("sqlite3", <<"/", "d", "/", "S1.db">>)
        ELSE Conn("sqlite3", <<"/", "e", "/", "S2.db">>)]

\* Every configuration translated in the checks of patch_ini_json.
Configs ==
    {Ini(c, b, h, DefaultCluster) :
        c \in SqliteConns \cup OtherConns, b \in {NoValue, <<"SQL">>},
        h \in {<<>>, <<"C1", "C2">>}}
    \cup {Ini(c, <<"HYBRID">>, <<"C1">>, DefaultCluster) : c \in OtherConns}
    \cup {Ini(c, b, h, k) :
            c \in SqliteConns, b \in {<<"HYBRID">>, <<"hybrid">>},
            h \in HybridSections, k \in [ClusterKeys -> ShardConns]}

\* Configurations of the deployment runs: one of every kind above.
DbPath == <<"/", "d", "/", "G2C.db">>
RunConfigs ==
    {Ini(Conn("SQLITE3", DbPath), <<"HYBRID">>, <<"C1">>, DefaultCluster),
     Ini(Conn("sqlite3", DbPath), <<"HYBRID">>, <<"C1", "C2">>, DefaultCluster),
     Ini(ConnNoColon("sqlite3", DbPath), NoValue, <<>>, DefaultCluster),
     Ini(ConnNoAt("sqlite3", DbPath), NoValue, <<>>, DefaultCluster),
     Ini(ConnNoAt("mysql", <<"host", "/", "G2">>), NoValue, <<>>, DefaultCluster),
     Ini(ConnNoColon("mysql", <<"host", "/", "G2">>), NoValue, <<>>, DefaultCluster),
     Ini(Conn("mssql", <<"host", "/", "G2">>), NoValue, <<>>, DefaultCluster),
     Ini(Conn("nosuchdb", <<"host", "/", "G2">>), NoValue, <<>>, DefaultCluster)}

\* ------------------------------------------------------------ image tags

\* Tags, as character codes: "1.2.0", "1.3.0", "latest", "latest-rc".
NoTag      == <<>>
Tag120     == <<49, 46, 50, 46, 48>>
Tag130     == <<49, 46, 51, 46, 48>>
TagLatest  == <<108, 97, 116, 101, 115, 116>>
TagLatestRc == TagLatest \o <<45, 114, 99>>

RECURSIVE StrLess(_, _)
\* Python's a < b on strings.
StrLess(a, b) ==
    IF b = <<>> THEN FALSE
    ELSE IF a = <<>> THEN TRUE
    ELSE IF Head(a) # Head(b) THEN Head(a) < Head(b)
    ELSE StrLess(Tail(a), Tail(b))

\* Python's sub in s on strings.
Contains(s, sub) ==
    \E i \in 1..(Len(s) - Len(sub) + 1) : SubSeq(s, i, i + Len(sub) - 1) = sub

\* sorted(S, reverse=True)[0]
Greatest(S) == CHOOSE x \in S : \A y \in S : y = x \/ StrLess(y, x)

Services == {"restapi", "webapp", "swagger"}
\* The iteration order of the docker_containers dict.
ServiceOrder == <<"restapi", "webapp", "swagger">>

\* The tag the caller gave for service k (args.apiTag, webAppTag, swaggerTag).
Override(a, k) ==
    CASE k = "restapi" -> a.apiTag
      [] k = "webapp"  -> a.webAppTag
      [] k = "swagger" -> a.swaggerTag

\* ------------------------------------------------- the network collaborators

\* retries=3 of internet_access
Retries == 3

RECURSIVE internet_access(_, _)
\* internet_access on the outcomes o of its attempts (TRUE: urlopen
\* succeeded). A failed attempt recurses for the retry and drops what the
\* recursive call returns: the function then returns False.
internet_access(o, retries) ==
    IF Head(o) THEN TRUE
    ELSE LET retried == IF retries > 1 THEN internet_access(Tail(o), retries - 1)
                        ELSE FALSE
         IN  FALSE

\* parse_versions returned False
VersionsFailed == [k \in Services |-> <<0>>]
\* The manifest files that can be served: all three services pinned to
\* "1.3.0", no line at all, or the API server's line only.
VersionFiles ==
    {[k \in Services |-> Tag130],
     [k \in Services |-> NoTag],
     [k \in Services |-> IF k = "restapi" THEN Tag130 ELSE NoTag]}

\* The outcomes of the attempts of one internet_access call: the resource
\* answers from some attempt on, or never.
AccessAttempts ==
    {[r \in 1..Retries |-> r > i] : i \in 0..Retries}

\* bool(versions): a parsed file with at least one line
Truthy(versions) == versions # VersionsFailed /\ \E k \in Services : versions[k] # NoTag

\* The tags with the manifest never consulted.
resolve_tags_without_manifest(a, versions) ==
    [status |-> "ok",
     tag |-> [k \in Services |->
                IF Override(a, k) # NoTag THEN Override(a, k) ELSE TagLatest]]

\* The tags read with versions.get: a service without a line has none.
resolve_tags_with_get(a, versions) ==
    [status |-> "ok",
     tag |-> [k \in Services |->
                IF Override(a, k) # NoTag THEN Override(a, k)
                ELSE IF Truthy(versions) THEN versions[k]
                ELSE TagLatest]]

\* Lines 1349-1359: "ok" and the tags, or "exception" for the KeyError of a
\* manifest without the service's line.
resolve_tags(a, versions) ==
    IF Truthy(versions) /\ \E k \in Services : versions[k] = NoTag
    THEN [status |-> "exception", tag |-> [k \in Services |-> NoTag]]
    ELSE [status |-> "ok",
          tag |-> [k \in Services |->
                    IF Override(a, k) # NoTag THEN Override(a, k)
                    ELSE IF Truthy(versions) THEN versions[k]
                    ELSE TagLatest]]

\* ---------------------------------------------------------- the image store

TagsOf(img) == {img[i] : i \in DOMAIN img}

\* docker_image_exists(name:tag)
docker_image_exists(store, k, tag) == \E img \in store[k] : tag \in TagsOf(img)

\* Lines 1375-1381
image_available(store, k) == store[k] # {}

\* The newest tag without the filter of lines 1409-1410.
newest_local_tag_unfiltered(imgs) ==
    IF imgs = {} THEN NoTag ELSE Greatest({img[1] : img \in imgs})

\* Lines 1405-1415 for one image name: the tag taken, NoTag for the
\* IndexError of an empty images_to_sort.
newest_local_tag(imgs) ==
    LET images_to_sort ==
            {img[1] : img \in {i \in imgs :
                ~(Cardinality(imgs) > 1 /\ Contains(i[1], TagLatest))}}
    IN  IF images_to_sort = {} THEN NoTag ELSE Greatest(images_to_sort)

RECURSIVE fallback_loop(_, _, _)
\* Lines 1402-1417 over the keys left: [status, tag].
fallback_loop(tags, store, keys) ==
    IF keys = <<>> THEN [status |-> "ok", tag |-> tags]
    ELSE LET k == Head(keys)
         IN  IF ~image_available(store, k) THEN fallback_loop(tags, store, Tail(keys))
             ELSE IF newest_local_tag(store[k]) = NoTag
                  THEN [status |-> "exception", tag |-> tags]
             ELSE fallback_loop([tags EXCEPT ![k] = newest_local_tag(store[k])],
                                store, Tail(keys))

\* docker_pull: [did_pull, store, called]. out is what images.pull does when
\* it is called: "PULLED" or "NotFound".
docker_pull(store, k, tag, force_pull, out) ==
    IF force_pull \/ ~docker_image_exists(store, k, tag)
    THEN [did_pull |-> IF out = "PULLED" THEN "PULLED" ELSE "False",
          store |-> IF out = "PULLED" /\ ~docker_image_exists(store, k, tag)
                    THEN [store EXCEPT ![k] = @ \cup {<<tag>>}] ELSE store,
          called |-> TRUE]
    ELSE [did_pull |-> "True", store |-> store, called |-> FALSE]

Skipped(a, k) == (a.noWebApp /\ k = "webapp") \/ (a.noSwagger /\ k = "swagger")

RECURSIVE pull_default_images(_, _, _, _, _, _, _)
\* pull_default_images over the keys left: [status, dc, store, pulled].
pull_default_images(d, store, calls, a, force_pull, out, keys) ==
    IF keys = <<>> THEN [status |-> "ok", dc |-> d, store |-> store, pulled |-> calls]
    ELSE LET k == Head(keys)
             p == docker_pull(store, k, d[k].tag, force_pull, out[k])
             calls2 == IF p.called
                       THEN Append(calls, [svc |-> k, tag |-> d[k].tag, out |-> out[k]])
                       ELSE calls
         IN  IF Skipped(a, k)
             THEN pull_default_images(d, store, calls, a, force_pull, out, Tail(keys))
             ELSE IF p.did_pull = "False" /\ k = "restapi"
                  THEN [status |-> "exit0", dc |-> d, store |-> p.store, pulled |-> calls2]
             ELSE pull_default_images(
                    [d EXCEPT ![k].imagepulled = (p.did_pull = "PULLED") \/ @,
                              ![k].imageavailable = "True"],
                    p.store, calls2, a, force_pull, out, Tail(keys))

\* ------------------------------------------------------------- docker_run

\* loop_cnt=20 of status_wait
loop_cnt == 20
\* retries=5 of get_api_spec
ApiSpecRetries == 5

Statuses == {"created", "running", "paused", "exited"}
HealthStatuses == {"starting", "healthy", "unhealthy"}

\* What the engine answers to the polls of one status_wait call: loop_cnt
\* reads inside the loop and the read after it. The answers are a until the
\* i-th read and the status waited for from then on (never, when i is the
\* last read).
Answers(values, check) ==
    {[r \in 1..(loop_cnt + 1) |-> IF r <= i THEN a ELSE b] :
        a \in values, b \in {check}, i \in {1, loop_cnt, loop_cnt + 1}}

\* status_wait(msg, check, cont_name): what it returns and how many polls it
\* made, given the answers obs.
status_wait(check, obs) ==
    LET hits == {r \in 1..loop_cnt : obs[r] = check}
    IN  IF hits # {}
        THEN [ret |-> check, polls |-> CHOOSE r \in hits : \A q \in hits : r <= q]
        ELSE [ret |-> obs[loop_cnt + 1], polls |-> loop_cnt]

\* The outcomes of the attempts of one get_api_spec call: URL errors, then
\* from some attempt on the same outcome x.
SpecAttempts ==
    {[r \in 1..ApiSpecRetries |-> IF r <= i THEN "urlerror" ELSE x] :
        i \in 0..ApiSpecRetries, x \in {"ok", "error"}}

RECURSIVE get_api_spec(_, _)
\* get_api_spec on the outcomes o of its attempts: "ok" (the document was
\* read), "urlerror" (retried) or "error" (any other exception).
get_api_spec(o, retry) ==
    IF retry = 0 THEN "exit1"
    ELSE IF Head(o) = "ok" THEN "ok"
    ELSE IF Head(o) = "urlerror" THEN get_api_spec(Tail(o), retry - 1)
    ELSE "exit1"


\* ------------------------------------------------------------------ inputs

Booleans == {TRUE, FALSE}

\* How many command-line options the caller gave.
Options(a) ==
    Cardinality({k \in Services : Override(a, k) # NoTag})
    + Cardinality({f \in {"noWebApp", "noSwagger", "skipHealth", "forcePull"} : a[f]})

ArgSets ==
    {a \in [apiTag : {NoTag, Tag120}, webAppTag : {NoTag, Tag120},
            swaggerTag : {NoTag, Tag120}, noWebApp : Booleans,
            noSwagger : Booleans, skipHealth : Booleans, forcePull : Booleans] :
        Options(a) <= MaxOptions}

\* Images one repository can hold locally: none, "latest" only, three
\* images, one image with two tags, two images tagged latest*.
LocalImages ==
    {{}, {<<TagLatest>>}, {<<Tag120>>, <<Tag130>>, <<TagLatest>>},
     {<<TagLatest, Tag130>>}, {<<TagLatest>>, <<TagLatestRc>>}}
\* The image stores a run can find: any of the above for the API server;
\* the optional services were installed together, three images each, or
\* never.
Stores ==
    {[k \in Services |-> IF k = "restapi" THEN api ELSE optional] :
        api \in LocalImages,
        optional \in {{}, {<<Tag120>>, <<Tag130>>, <<TagLatest>>}}}

NoArgs ==
    [apiTag |-> NoTag, webAppTag |-> NoTag, swaggerTag |-> NoTag,
     noWebApp |-> FALSE, noSwagger |-> FALSE, skipHealth |-> FALSE,
     forcePull |-> FALSE]
NoNet ==
    [access_versions |-> FALSE, access_dockerhub |-> FALSE, versions |-> VersionsFailed,
     attempts |-> <<>>, api_spec |-> "None", call |-> 1, made |-> <<0, 0, 0>>,
     pauses |-> <<>>]
NoPatch == [db_type |-> <<>>, ini |-> <<>>, mount |-> NoMount]
\* docker_containers as main() builds it (lines 1039-1076)
InitialContainers ==
    [k \in Services |->
        [tag |-> NoTag, imageavailable |-> "None", imagepulled |-> FALSE,
         startedok |-> "None"]]
\* cont[k]: run is "called" once containers.run returned, "apierror" when it
\* raised; running is what the wait for 'running' returned; warned: the
\* container reported health and the wait for 'healthy' returned something
\* else (the WARNING of line 456); logs: docker_logs ran.
\* answers: what the engine will answer to the reads of docker_run's waits,
\* when given; turns: the turns the loop of each wait has made, when the
\* waits are taken turn by turn.
NoContainer ==
    [run |-> "none", running |-> "none", warned |-> FALSE, logs |-> FALSE,
     answers |-> <<>>, turns |-> [running |-> 0, healthy |-> 0]]

\* ------------------------------------------------ containers and networks

\* args.projectSuffix (line 1298), and args.dockNet (line 1183)
senzing_proj_name == <<"p">>
DockNet == <<"szgo-network">>

\* Lines 1299-1301
containername(k) ==
    (CASE k = "restapi" -> <<"SzGo-API-">>
       [] k = "webapp"  -> <<"SzGo-WEB-">>
       [] k = "swagger" -> <<"SzGo-Swagger-">>) \o senzing_proj_name

\* Line 478
project_container_names == {containername(k) : k \in Services}

\* What else the engine may hold: the API server of a project "p2", whose
\* name contains "p", and of a project "q"; a network whose name contains
\* the name of the project's network.
OtherContainers == {<<"SzGo-API-", "p", "2">>, <<"SzGo-API-", "q">>}
ContainerNames == project_container_names \cup OtherContainers
NetworkNames == {DockNet, DockNet \o <<"-2">>}

\* The order in which the engine lists containers.
ListOrder ==
    <<containername("swagger"), <<"SzGo-API-", "p", "2">>, containername("webapp"),
      containername("restapi"), <<"SzGo-API-", "q">>>>

\* docker_cont_list(all_conts=True, cont_filters={'name': name}): the engine
\* returns the containers whose name contains the filter.
docker_cont_list(e, name) ==
    SelectSeq(ListOrder, LAMBDA c : c \in e.containers /\ Contains(c, name))

\* networks.list(names=name): the networks whose name contains the filter.
networks_list(e, name) == {n \in e.networks : Contains(n, name)}

FlagNames ==
    {"contStop", "contRemove", "contRemoveNoPrompt", "info", "logs", "saveImages",
     "loadImages", "imagesList"}
\* Lines 1124-1138: the three clean-up options exclude each other.
stop_group == {"contStop", "contRemove", "contRemoveNoPrompt"}
FlagSets ==
    {f \in [FlagNames -> Booleans] :
        /\ Cardinality({n \in stop_group : f[n]}) <= 1
        /\ Cardinality({n \in FlagNames : f[n]}) <= MaxOptions}

NoFlags == [n \in FlagNames |-> FALSE]
NoEngine == [containers |-> {}, networks |-> {}]
\* teardown: which run this is on the engine, how often main() called
\* containers_stop_remove in it, the
\* parameters of the call, the containers it listed, the ones its loop has
\* not visited yet, and whether the caller refused consent at the prompt.
NoTeardown ==
    [run |-> 1, invocations |-> 0, containers_remove |-> FALSE,
     containers_remove_no_prompt |-> FALSE, startup_remove |-> FALSE,
     forced_remove |-> FALSE, listed |-> <<>>, todo |-> <<>>, declined |-> FALSE]
\* package: the list given with --saveImages, avail_images_with_tag,
\* packaged_files, the files a loop has not visited yet, the members of the
\* compressed archive and whether it was closed, the files in the extract
\* directory, the files given to images.load, and whether the extract
\* directory exists.
NoPackage ==
    [save_images |-> <<>>, avail_images_with_tag |-> <<>>, packaged_files |-> <<>>,
     todo |-> <<>>, archive |-> <<>>, saved |-> FALSE, extracted |-> {},
     loaded |-> <<>>, extract_path |-> FALSE]

\* ------------------------------------------------------------- the actions

vars ==
    <<pc, exit, args, ini_json, patched, printed, net, dc, images, cont, started,
      pulled, reported, failures, flags, engine, teardown, engine_calls, package,
      files,
      target>>

\* sys.exit, or an uncaught exception
Ends(how) == pc' = "done" /\ exit' = how
Goes(to) == pc' = to /\ exit' = exit

\* The environment lets n more operations fail, within MaxFailures a run.
Fails(n) == failures + n <= MaxFailures /\ failures' = failures + n
Cost(failed) == IF failed THEN 1 ELSE 0

\* Lines 1339-1340: the two reachability checks.
InternetAccess ==
    /\ pc = "internet_access"
    /\ \E o1, o2 \in AccessAttempts :
        /\ Fails(Cost(~internet_access(o1, Retries))
                 + Cost(~internet_access(o2, Retries)))
        /\ net' = [net EXCEPT !.access_versions = internet_access(o1, Retries),
                              !.access_dockerhub = internet_access(o2, Retries)]
    /\ Goes("versions")
    /\ UNCHANGED <<lifecycle, packaging>>
    /\ UNCHANGED <<args, ini_json, patched, printed, dc, images, cont, started,
                   pulled, reported>>

\* Lines 1346-1359: the manifest, the pinned tags, the overrides.
ResolveTags ==
    /\ pc = "versions"
    /\ \E v \in IF net.access_versions THEN VersionFiles \cup {VersionsFailed}
                ELSE {[k \in Services |-> NoTag]} :
        LET r == resolve_tags(args, v)
        IN  /\ Fails(Cost(net.access_versions /\ v # [k \in Services |-> Tag130]))
            /\ net' = [net EXCEPT !.versions = v]
            /\ IF r.status = "ok"
               THEN /\ dc' = [k \in Services |-> [dc[k] EXCEPT !.tag = r.tag[k]]]
                    /\ Goes("images")
               ELSE /\ dc' = dc
                    /\ Ends(r.status)
    /\ UNCHANGED <<lifecycle, packaging>>
    /\ UNCHANGED <<args, ini_json, patched, printed, images, cont, started, pulled,
                   reported>>

\* Lines 1379-1381
WithAvailability(d, store) ==
    [k \in Services |->
        [d[k] EXCEPT !.imageavailable =
            IF image_available(store, k) THEN "True" ELSE "False"]]

\* Lines 1372-1385: the registry is reachable, pull_default_images runs.
PullImages ==
    /\ pc = "images"
    /\ net.access_dockerhub
    /\ \E out \in [Services -> {"PULLED", "NotFound"}] :
        LET r == pull_default_images(WithAvailability(dc, images), images, pulled,
                                     args, args.forcePull, out, ServiceOrder)
        IN  /\ Fails(Cardinality({i \in DOMAIN r.pulled : r.pulled[i].out = "NotFound"}))
            /\ dc' = r.dc
            /\ images' = r.store
            /\ pulled' = r.pulled
            /\ IF r.status = "ok" THEN Goes("patch_ini") ELSE Ends(r.status)
    /\ UNCHANGED <<lifecycle, packaging>>
    /\ UNCHANGED <<args, ini_json, patched, printed, net, cont, started, reported>>

\* Lines 1372-1381 and 1386-1417: the registry is not reachable.
LocalFallback ==
    /\ pc = "images"
    /\ ~net.access_dockerhub
    /\ LET d == WithAvailability(dc, images)
           r == fallback_loop([k \in Services |-> d[k].tag], images, ServiceOrder)
       IN  IF d["restapi"].imageavailable # "True"
           THEN dc' = d /\ Ends("exit1")
           ELSE IF r.status # "ok"
                THEN dc' = d /\ Ends(r.status)
           ELSE /\ dc' = [k \in Services |-> [d[k] EXCEPT !.tag = r.tag[k]]]
                /\ Goes("patch_ini")
    /\ UNCHANGED <<lifecycle, packaging>>
    /\ UNCHANGED <<args, ini_json, patched, printed, net, images, cont, started,
                   pulled, reported, failures>>

\* Line 1421: db_type, ini_json_patched, sqlite_mount = patch_ini_json(ini_json)
PatchIni ==
    /\ pc = "patch_ini"
    /\ \E r \in patch_ini_json(ini_json) :
        /\ printed' = r.printed
        /\ IF r.status = "ok"
           THEN /\ patched' = [db_type |-> r.db_type, ini |-> r.ini, mount |-> r.mount]
                /\ Goes("db_checks")
           ELSE /\ patched' = patched
                /\ Ends(r.status)
    /\ UNCHANGED <<lifecycle, packaging>>
    /\ UNCHANGED <<args, ini_json, net, dc, images, cont, started, pulled, reported,
                   failures>>

\* db_type.lower() of lines 1424 and 1428: mysql_check or db2_check runs.
client_checked(db_type) == Lower(db_type) \in {<<"mysql">>, <<"db2">>}

\* The checks without the refusal of lines 1431-1433.
db_checks_of_clients_only(db_type, ok) ==
    IF client_checked(db_type) /\ ~ok THEN "exit1" ELSE "ok"

\* Lines 1424-1433: mysql_check and db2_check end the run when the client
\* library or driver is missing (ok = FALSE); 'mssql' is refused.
db_checks(db_type, ok) ==
    IF client_checked(db_type) /\ ~ok THEN "exit1"
    ELSE IF db_type = <<"mssql">> THEN "exit1"
    ELSE "ok"

DbChecks ==
    /\ pc = "db_checks"
    /\ \E ok \in Booleans :
        /\ ok \/ client_checked(patched.db_type)
        /\ Fails(Cost(~ok))
        /\ IF db_checks(patched.db_type, ok) = "ok" THEN Goes("write_ini")
           ELSE Ends("exit1")
    /\ UNCHANGED <<lifecycle, packaging>>
    /\ UNCHANGED <<args, ini_json, patched, printed, net, dc, images, cont, started,
                   pulled, reported>>

\* Line 1241: the configuration file of the project.
ini_file_name == <<"etc/", "G2Module.ini">>
\* Line 1437
ini_json_file(name) == name \o <<"_SzGo.json">>
\* Line 1457: stat.S_IRUSR | stat.S_IWUSR
S_IRUSR_IWUSR == "rw-------"
\* The permissions open(.., 'w') gives a file it creates.
CreatedMode == "rw-r--r--"
\* What the system may refuse of lines 1438-1463.
WriteSteps == {"none", "open", "chown", "chmod"}

\* The file on disk having this content, owner and permissions.
WriteFile(fs, name, json, owner, mode) ==
    {f \in fs : f.name # name}
        \cup {[name |-> name, content |-> [json |-> json, owner |-> owner, mode |-> mode]]}

\* A failing chmod reported, the run going on.
write_ini_unrestricted(fs, name, json, root, refused) ==
    IF refused = "open" THEN [status |-> "exception", files |-> fs]
    ELSE IF root /\ refused = "chown"
    THEN [status |-> "exit1", files |-> WriteFile(fs, name, json, "root", CreatedMode)]
    ELSE IF refused = "chmod"
    THEN [status |-> "ok", files |-> WriteFile(fs, name, json, "user", CreatedMode)]
    ELSE [status |-> "ok", files |-> WriteFile(fs, name, json, "user", S_IRUSR_IWUSR)]

\* Lines 1438-1463: the file is written (an open that fails is not caught);
\* as root it is given to the user of sudo, or the run ends; its
\* permissions are set to owner read and write, or the run ends.
write_ini(fs, name, json, root, refused) ==
    IF refused = "open" THEN [status |-> "exception", files |-> fs]
    ELSE IF root /\ refused = "chown"
    THEN [status |-> "exit1", files |-> WriteFile(fs, name, json, "root", CreatedMode)]
    ELSE IF refused = "chmod"
    THEN [status |-> "exit1", files |-> WriteFile(fs, name, json, "user", CreatedMode)]
    ELSE [status |-> "ok", files |-> WriteFile(fs, name, json, "user", S_IRUSR_IWUSR)]

\* Lines 1435-1463: the translated configuration is written next to the
\* configuration file; a failing chown or chmod ends the run.
WriteIni ==
    /\ pc = "write_ini"
    /\ \E root \in Booleans, refused \in WriteSteps :
        LET r == write_ini(files, ini_json_file(ini_file_name), patched.ini, root, refused)
        IN  /\ refused = "chown" => root
            /\ Fails(Cost(refused # "none"))
            /\ files' = r.files
            /\ IF r.status = "ok" THEN Goes("run_restapi") ELSE Ends(r.status)
    /\ UNCHANGED <<lifecycle, package, target>>
    /\ UNCHANGED <<args, ini_json, patched, printed, net, dc, images, cont, started,
                   pulled, reported>>

RunPc == [k \in Services |-> "run_" \o k]
HealthPc == [k \in Services |-> "health_" \o k]
\* The optional services started right after the API server.
NextAfterWithoutSpec(k) ==
    CASE k = "restapi" -> "run_webapp"
      [] k = "webapp"  -> "run_swagger"
      [] k = "swagger" -> "report"

\* Where main() goes on after docker_run returned for k.
NextAfter(k) ==
    CASE k = "restapi" -> "api_spec"
      [] k = "webapp"  -> "run_swagger"
      [] k = "swagger" -> "report"

\* Starting every optional service that was not suppressed, with or without
\* an image.
WantedUnlessSuppressed(k) == k = "restapi" \/ ~Skipped(args, k)

\* Lines 1523 and 1554: the optional services are started when not
\* suppressed and their image is available.
Wanted(k) == k = "restapi" \/ (~Skipped(args, k) /\ dc[k].imageavailable = "True")

\* docker_run returning right after the container runs.
after_run_unwaited(k, skip_health) == NextAfter(k)

\* Lines 447-462: docker_run returns to main() at once when health checking
\* is skipped, and after the wait for health otherwise.
after_run(k, skip_health) == IF skip_health THEN NextAfter(k) ELSE HealthPc[k]

\* The containers the run asked the engine to start stopped before leaving.
exit_calls_stopping(calls) ==
    [i \in DOMAIN calls |-> [op |-> "stop", name |-> containername(calls[i].svc)]]

\* Lines 223, 229, 445 and 451: sys.exit(1) and nothing before it but the
\* message and the logs: no call on the containers started so far.
exit_calls(calls) == <<>>

\* docker_run, lines 434-451: containers.run (api_ok = FALSE: it raises
\* APIError) and the wait for 'running', which ends the run on 'exited'.
DockerRun(k) ==
    /\ pc = RunPc[k]
    /\ Wanted(k)
    /\ started' = Append(started, [svc |-> k, tag |-> dc[k].tag])
    /\ \E api_ok \in Booleans :
       \E obs \in IF api_ok /\ ~args.skipHealth THEN Answers(Statuses, "running")
                   ELSE {[r \in 1..(loop_cnt + 1) |-> "running"]} :
        LET w == status_wait("running", obs)
        IN  IF ~api_ok
            THEN /\ Fails(1)
                 /\ cont' = [cont EXCEPT ![k].run = "apierror"]
                 /\ Ends("exit1")
            ELSE IF args.skipHealth
            THEN /\ Fails(0)
                 /\ cont' = [cont EXCEPT ![k].run = "called"]
                 /\ Goes(after_run(k, args.skipHealth))
            ELSE IF w.ret = "exited"
            THEN /\ Fails(1)
                 /\ cont' = [cont EXCEPT ![k].run = "called", ![k].running = w.ret,
                                         ![k].logs = TRUE]
                 /\ Ends("exit1")
            ELSE /\ Fails(Cost(w.ret # "running"))
                 /\ cont' = [cont EXCEPT ![k].run = "called", ![k].running = w.ret]
                 /\ Goes(after_run(k, args.skipHealth))
    /\ engine_calls' = IF exit' = "exit1" THEN engine_calls \o exit_calls(started')
                       ELSE engine_calls
    /\ UNCHANGED <<flags, engine, teardown, packaging>>
    /\ UNCHANGED <<args, ini_json, patched, printed, net, dc, images, pulled, reported>>

\* The health wait ending the run when the container is not healthy.
DockerHealthOrExit(k) ==
    /\ pc = HealthPc[k]
    /\ \E has_health \in Booleans :
       \E obs \in IF has_health THEN Answers(HealthStatuses, "healthy")
                   ELSE {[r \in 1..(loop_cnt + 1) |-> "healthy"]} :
        LET w == status_wait("healthy", obs)
            warned == has_health /\ w.ret # "healthy"
        IN  /\ Fails(Cost(warned))
            /\ cont' = [cont EXCEPT ![k].warned = warned, ![k].logs = warned]
            /\ dc' = [dc EXCEPT ![k].startedok = IF warned THEN @ ELSE "True"]
            /\ IF warned THEN Ends("exit1") ELSE Goes(NextAfter(k))
    /\ UNCHANGED <<lifecycle, packaging>>
    /\ UNCHANGED <<args, ini_json, patched, printed, net, images, started, pulled,
                   reported>>

\* docker_run, lines 453-462: the wait for 'healthy' when the container
\* reports health (has_health), and startedok.
DockerHealth(k) ==
    /\ pc = HealthPc[k]
    /\ \E has_health \in Booleans :
       \E obs \in IF has_health THEN Answers(HealthStatuses, "healthy")
                   ELSE {[r \in 1..(loop_cnt + 1) |-> "healthy"]} :
        LET w == status_wait("healthy", obs)
        IN  /\ Fails(Cost(has_health /\ w.ret # "healthy"))
            /\ cont' = [cont EXCEPT
                        ![k].warned = has_health /\ w.ret # "healthy",
                        ![k].logs = has_health /\ w.ret # "healthy"]
    /\ dc' = [dc EXCEPT ![k].startedok = "True"]
    /\ Goes(NextAfter(k))
    /\ UNCHANGED <<lifecycle, packaging>>
    /\ UNCHANGED <<args, ini_json, patched, printed, net, images, started, pulled,
                   reported>>

\* The else branches of lines 1545 and 1571: the service is not started.
SkipService(k) ==
    /\ pc = RunPc[k]
    /\ ~Wanted(k)
    /\ Goes(NextAfter(k))
    /\ UNCHANGED <<lifecycle, packaging>>
    /\ UNCHANGED <<args, ini_json, patched, printed, net, dc, images, cont, started,
                   pulled, reported, failures>>

\* Line 1516: the file of the specification, under SENZING_ROOT.
rest_json_file == <<"var/", "SzGo-rest-api.json">>
\* json.loads(api_spec)['data']
ApiSpecData == <<"data">>
\* What can go wrong at lines 1516-1518: the open, or json.loads and the
\* 'data' key on a document that is not the expected one.
DumpSteps == {"none", "open", "loads"}

\* Lines 1512-1518 on what get_api_spec returned: the file is opened for
\* writing (and is empty from then on) and the data of the document dumped
\* into it; no exception is caught.
write_api_spec(fs, got, refused) ==
    IF got # "ok" THEN [status |-> got, files |-> fs]
    ELSE IF refused = "open" THEN [status |-> "exception", files |-> fs]
    ELSE IF refused = "loads"
    THEN [status |-> "exception",
          files |-> WriteFile(fs, rest_json_file, <<>>, "user", CreatedMode)]
    ELSE [status |-> "ok",
          files |-> WriteFile(fs, rest_json_file, ApiSpecData, "user", CreatedMode)]

\* Lines 1510-1518: the API specification is fetched and written for
\* Swagger.
GetApiSpec ==
    /\ pc = "api_spec"
    /\ \E o \in SpecAttempts, refused \in DumpSteps :
        LET got == get_api_spec(o, ApiSpecRetries)
            r == write_api_spec(files, got, refused)
        IN  /\ got # "ok" => refused = "none"
            /\ Fails(Cost(r.status # "ok"))
            /\ net' = [net EXCEPT !.api_spec = got]
            /\ files' = r.files
            /\ IF r.status = "ok" THEN Goes("run_webapp") ELSE Ends(r.status)
            /\ engine_calls' = IF r.status = "ok" THEN engine_calls
                               ELSE engine_calls \o exit_calls(started)
    /\ UNCHANGED <<flags, engine, teardown, package, target>>
    /\ UNCHANGED <<args, ini_json, patched, printed, dc, images, cont, started,
                   pulled, reported>>

\* The report leaving out a service whose container was not healthy.
ShownWhenHealthy(k) ==
    k = "restapi"
        \/ (/\ ~Skipped(args, k)
            /\ (dc[k].startedok = "True" \/ args.skipHealth)
            /\ ~cont[k].warned)

\* Lines 1583-1595: a service's URL is shown when it was not suppressed and
\* startedok is set or the health wait was skipped.
Shown(k) ==
    k = "restapi" \/ (~Skipped(args, k) /\ (dc[k].startedok = "True" \/ args.skipHealth))

\* Lines 1577-1613: the report, and the normal end of main().
Report ==
    /\ pc = "report"
    /\ reported' = {k \in Services : Shown(k)}
    /\ Ends("ok")
    /\ UNCHANGED <<lifecycle, packaging>>
    /\ UNCHANGED <<args, ini_json, patched, printed, net, dc, images, cont, started,
                   pulled, failures>>

\* A deployment run, from the reachability checks of line 1337 on.
Init ==
    /\ pc = "internet_access"
    /\ exit = "none"
    /\ args \in ArgSets
    /\ ini_json \in RunConfigs
    /\ patched = NoPatch
    /\ printed = <<>>
    /\ net = NoNet
    /\ dc = InitialContainers
    /\ images \in Stores
    /\ cont = [k \in Services |-> NoContainer]
    /\ started = <<>>
    /\ pulled = <<>>
    /\ reported = {}
    /\ failures = 0
    /\ flags = NoFlags
    /\ engine = NoEngine
    /\ teardown = NoTeardown
    /\ engine_calls = <<>>
    /\ package = NoPackage
    /\ files = {}
    /\ target = {}

Next ==
    \/ InternetAccess
    \/ ResolveTags
    \/ PullImages
    \/ LocalFallback
    \/ PatchIni
    \/ DbChecks
    \/ WriteIni
    \/ \E k \in Services : DockerRun(k)
    \/ \E k \in Services : DockerHealth(k)
    \/ \E k \in Services : SkipService(k)
    \/ GetApiSpec
    \/ Report

Spec == Init /\ [][Next]_vars

\* The translation alone: every configuration, one call of patch_ini_json.
InitTranslate ==
    /\ pc = "patch_ini"
    /\ exit = "none"
    /\ args = NoArgs
    /\ ini_json \in Configs
    /\ patched = NoPatch
    /\ printed = <<>>
    /\ net = NoNet
    /\ dc = InitialContainers
    /\ images = [k \in Services |-> {}]
    /\ cont = [k \in Services |-> NoContainer]
    /\ started = <<>>
    /\ pulled = <<>>
    /\ reported = {}
    /\ failures = 0
    /\ flags = NoFlags
    /\ engine = NoEngine
    /\ teardown = NoTeardown
    /\ engine_calls = <<>>
    /\ package = NoPackage
    /\ files = {}
    /\ target = {}

NextTranslate == PatchIni

\* What urlopen can do at the attempts of one internet_access call, in
\* order: TRUE when it answers.
UrlopenOutcomes == [1..Retries -> Booleans]

\* Lines 1339-1340 with the network behaving as net.attempts says, for the
\* versions file and for the registry.
InternetAccessGiven ==
    /\ pc = "internet_access"
    /\ net' = [net EXCEPT !.access_versions = internet_access(net.attempts[1], Retries),
                          !.access_dockerhub = internet_access(net.attempts[2], Retries)]
    /\ Goes("versions")
    /\ UNCHANGED <<lifecycle, packaging>>
    /\ UNCHANGED <<args, ini_json, patched, printed, dc, images, cont, started,
                   pulled, reported, failures>>

\* The reachability checks alone, on every behaviour of the network.
InitAccess ==
    /\ pc = "internet_access"
    /\ exit = "none"
    /\ args = NoArgs
    /\ ini_json = CHOOSE c \in RunConfigs : TRUE
    /\ patched = NoPatch
    /\ printed = <<>>
    /\ net \in {[NoNet EXCEPT !.attempts = <<o1, o2>>] : o1, o2 \in UrlopenOutcomes}
    /\ dc = InitialContainers
    /\ images = [k \in Services |-> {}]
    /\ cont = [k \in Services |-> NoContainer]
    /\ started = <<>>
    /\ pulled = <<>>
    /\ reported = {}
    /\ failures = 0
    /\ flags = NoFlags
    /\ engine = NoEngine
    /\ teardown = NoTeardown
    /\ engine_calls = <<>>
    /\ package = NoPackage
    /\ files = {}
    /\ target = {}

NextAccess == InternetAccessGiven

SpecAccess == InitAccess /\ [][NextAccess]_vars

\* The pause getting shorter with the tries left.
sleep_time_by_tries_left(retries, retry) == 5 * retry

\* Line 211: 5 * (retries - retry) if retry < ceil(retries/retry) else 5
sleep_time(retries, retry) ==
    IF retry < (retries + retry - 1) \div retry THEN 5 * (retries - retry) ELSE 5

\* What urlopen and read can do at the attempts of one get_api_spec call.
ApiSpecOutcomes == [1..ApiSpecRetries -> {"ok", "urlerror", "error"}]

\* internet_access, lines 175-196, one attempt of the call running (the
\* first for the versions file, the second for the registry): urlopen
\* answers and the call returns, True from the outermost call only; or it
\* fails, and the function sleeps and calls itself with one retry less
\* while retries > 1, and returns False.
UrlopenAttempt ==
    /\ pc = "internet_access"
    /\ LET c == net.call
           n == net.made[c] + 1
           retries == Retries - net.made[c]
           tried == [net EXCEPT !.made[c] = n]
           returned(ret) ==
               IF c = 1 THEN [tried EXCEPT !.access_versions = ret, !.call = 2]
               ELSE [tried EXCEPT !.access_dockerhub = ret]
       IN  IF net.attempts[c][n]
           THEN net' = returned(n = 1) /\ Goes(IF c = 1 THEN pc ELSE "versions")
           ELSE IF retries > 1
           THEN net' = tried /\ Goes(pc)
           ELSE net' = returned(FALSE) /\ Goes(IF c = 1 THEN pc ELSE "versions")
    /\ UNCHANGED <<lifecycle, packaging>>
    /\ UNCHANGED <<args, ini_json, patched, printed, dc, images, cont, started,
                   pulled, reported, failures>>

\* get_api_spec, lines 199-229, one turn of its loop, and lines 1512-1518
\* when it returns: while retry > 0 the document is asked for; a URL error
\* is followed by a sleep and one try less, any other exception by
\* sys.exit(1); with no try left the run ends.
ApiSpecAttempt ==
    /\ pc = "api_spec"
    /\ LET n == net.made[3] + 1
           retry == ApiSpecRetries - net.made[3]
           tried == [net EXCEPT !.made[3] = n]
       IN  IF retry = 0
           THEN net' = [net EXCEPT !.api_spec = "exit1"] /\ files' = files /\ Ends("exit1")
           ELSE IF net.attempts[3][n] = "ok"
           THEN /\ net' = [tried EXCEPT !.api_spec = "ok"]
                /\ files' = write_api_spec(files, "ok", "none").files
                /\ Goes("run_webapp")
           ELSE IF net.attempts[3][n] = "urlerror"
           THEN /\ net' = [tried EXCEPT
                            !.pauses = Append(@, sleep_time(ApiSpecRetries, retry))]
                /\ files' = files
                /\ Goes(pc)
           ELSE net' = [tried EXCEPT !.api_spec = "exit1"] /\ files' = files /\ Ends("exit1")
    /\ UNCHANGED <<lifecycle, package, target>>
    /\ UNCHANGED <<args, ini_json, patched, printed, dc, images, cont, started,
                   pulled, reported, failures>>

\* The two reachability checks of lines 1339-1340, or the fetch of line
\* 1512, on every behaviour of the network.
InitRetry ==
    /\ pc \in {"internet_access", "api_spec"}
    /\ exit = "none"
    /\ args = NoArgs
    /\ ini_json = CHOOSE c \in RunConfigs : TRUE
    /\ patched = NoPatch
    /\ printed = <<>>
    /\ \E o1, o2 \in UrlopenOutcomes, o3 \in ApiSpecOutcomes :
        /\ pc = "internet_access" => o3 = [r \in 1..ApiSpecRetries |-> "ok"]
        /\ pc = "api_spec" => (o1 = [r \in 1..Retries |-> TRUE] /\ o2 = o1)
        /\ net = [NoNet EXCEPT !.attempts = <<o1, o2, o3>>]
    /\ dc = InitialContainers
    /\ images = [k \in Services |-> {}]
    /\ cont = [k \in Services |-> NoContainer]
    /\ started = <<>>
    /\ pulled = <<>>
    /\ reported = {}
    /\ failures = 0
    /\ flags = NoFlags
    /\ engine = NoEngine
    /\ teardown = NoTeardown
    /\ engine_calls = <<>>
    /\ package = NoPackage
    /\ files = {}
    /\ target = {}

NextRetry ==
    \/ UrlopenAttempt
    \/ ApiSpecAttempt

\* The process is the only one and sleep returns: a step that can be taken
\* is taken.
SpecRetry == InitRetry /\ [][NextRetry]_vars /\ WF_vars(NextRetry)

\* The loop taking one turn more.
in_loop_once_more(r, cnt) == r <= cnt

\* Line 405: for r in range(loop_cnt), after r turns.
in_loop(r, cnt) == r < cnt

\* Lines 441-449 for the API server, the engine taking the container:
\* containers.run returns; docker_run returns at once when health checking
\* is skipped and waits for 'running' otherwise.
RunGiven ==
    /\ pc = "run_restapi"
    /\ started' = Append(started, [svc |-> "restapi", tag |-> dc["restapi"].tag])
    /\ cont' = [cont EXCEPT !["restapi"].run = "called"]
    /\ Goes(IF args.skipHealth THEN NextAfter("restapi") ELSE "wait_running")
    /\ UNCHANGED <<lifecycle, packaging>>
    /\ UNCHANGED <<args, ini_json, patched, printed, net, dc, images, pulled, reported,
                   failures>>

\* status_wait, lines 400-423, one step of it: a turn of the loop (the
\* status is read and either is the one waited for, or the function sleeps)
\* or, the loop over, the last read; and what docker_run does when the wait
\* returns (lines 448-462).
StatusWait(check) ==
    /\ pc = "wait_" \o check
    /\ LET c == cont["restapi"]
           r == c.turns[check]
           turn == in_loop(r, loop_cnt)
           read == IF turn THEN c.answers[check][r + 1] ELSE c.answers[check][loop_cnt + 1]
           waited == [c EXCEPT !.turns[check] = IF turn THEN r + 1 ELSE r]
       IN  IF turn /\ read # check
           THEN cont' = [cont EXCEPT !["restapi"] = waited] /\ dc' = dc /\ Goes(pc)
           ELSE IF check = "running"
           THEN /\ dc' = [dc EXCEPT !["restapi"].startedok =
                            IF read # "exited" /\ ~c.answers.health THEN "True" ELSE @]
                /\ cont' = [cont EXCEPT !["restapi"] =
                                [waited EXCEPT !.running = read, !.logs = (read = "exited")]]
                /\ IF read = "exited" THEN Ends("exit1")
                   ELSE Goes(IF c.answers.health THEN "wait_healthy" ELSE NextAfter("restapi"))
           ELSE /\ dc' = [dc EXCEPT !["restapi"].startedok = "True"]
                /\ cont' = [cont EXCEPT !["restapi"] =
                                [waited EXCEPT !.warned = (read # "healthy"),
                                               !.logs = (read # "healthy")]]
                /\ Goes(NextAfter("restapi"))
    /\ UNCHANGED <<lifecycle, packaging>>
    /\ UNCHANGED <<args, ini_json, patched, printed, net, images, started, pulled,
                   reported, failures>>

\* docker_run for the API server alone, line 1484, on every course of the
\* container's status and health.
InitWait ==
    /\ pc = "run_restapi"
    /\ exit = "none"
    /\ args \in {[NoArgs EXCEPT !.skipHealth = b] : b \in Booleans}
    /\ ini_json = CHOOSE c \in RunConfigs : TRUE
    /\ patched = NoPatch
    /\ printed = <<>>
    /\ net = NoNet
    /\ dc = [k \in Services |-> [InitialContainers[k] EXCEPT !.tag = TagLatest]]
    /\ images = [k \in Services |-> {}]
    /\ \E h \in Booleans, o1 \in Answers(Statuses, "running"),
          o2 \in Answers(HealthStatuses, "healthy") :
        cont = [k \in Services |->
                    IF k = "restapi"
                    THEN [NoContainer EXCEPT
                            !.answers = [health |-> h, running |-> o1, healthy |-> o2]]
                    ELSE NoContainer]
    /\ started = <<>>
    /\ pulled = <<>>
    /\ reported = {}
    /\ failures = 0
    /\ flags = NoFlags
    /\ engine = NoEngine
    /\ teardown = NoTeardown
    /\ engine_calls = <<>>
    /\ package = NoPackage
    /\ files = {}
    /\ target = {}

NextWait ==
    \/ RunGiven
    \/ \E check \in {"running", "healthy"} : StatusWait(check)

\* The process is the only one and sleep returns: a step that can be taken
\* is taken.
SpecWait == InitWait /\ [][NextWait]_vars /\ WF_vars(NextWait)

SpecTranslate == InitTranslate /\ [][NextTranslate]_vars

\* ------------------------------------------------ network and clean-up

\* Lines 1293-1294: the run is a deployment.
creates_network(f) == \A n \in FlagNames : ~f[n]
\* Line 1304
cleans_up(f) == f.contStop \/ f.contRemove \/ f.contRemoveNoPrompt
\* The refresh before every run that shows nothing.
refreshes_unless_shown(f) == ~f.info /\ ~f.logs /\ ~f.imagesList

\* A deployment that leaves the containers of the run before in place.
refreshes_never(f) == FALSE

\* Line 1311
refreshes(f) ==
    ~f.saveImages /\ ~f.loadImages /\ ~f.info /\ ~f.logs /\ ~f.imagesList

\* The engine call op on name, recorded.
Call(op, name) == [op |-> op, name |-> name]

\* Line 381: not docker_client.networks.list(names=network_name)
network_missing(e, name) == networks_list(e, name) = {}

\* docker_net, called at line 1295 by a deployment: networks.create when no
\* network is listed; a DockerException ends the run.
DockerNet ==
    /\ pc = "docker_net"
    /\ IF creates_network(flags) /\ network_missing(engine, DockNet)
       THEN \E ok \in Booleans :
            /\ Fails(Cost(~ok))
            /\ engine_calls' = Append(engine_calls, Call("network_create", DockNet))
            /\ engine' = [engine EXCEPT !.networks = IF ok THEN @ \cup {DockNet} ELSE @]
            /\ IF ok THEN Goes("clean_up") ELSE Ends("exit1")
       ELSE /\ Goes("clean_up")
            /\ UNCHANGED <<engine, engine_calls, failures>>
    /\ UNCHANGED <<flags, teardown, started>>
    /\ UNCHANGED <<deployment, packaging>>

\* Line 502: what input() may return, and the answers taken as consent.
PromptAnswers == {<<>>, <<"y">>, <<"Yes">>, <<"n">>}
Consents == {<<>>, <<"y">>, <<"Y">>, <<"yes">>, <<"YES">>}

\* Where main() goes on when containers_stop_remove returned: sys.exit(0)
\* of line 1307 after a clean-up, line 1316 after the refresh.
Returns(startup_remove) ==
    IF startup_remove THEN Goes("modes") ELSE Ends("exit0")

\* The function going on with an empty list.
returns_never(running_containers, startup_remove) == FALSE

\* Line 485: nothing is listed and the call is no refresh.
returns_early(running_containers, startup_remove) ==
    running_containers = <<>> /\ ~startup_remove

\* Removal in every mode.
remove_wanted_always(containers_remove, containers_remove_no_prompt, startup_remove, forced_remove) == TRUE

\* Removal on request only, not at the refresh before a deployment.
remove_wanted_on_request(containers_remove, containers_remove_no_prompt, startup_remove, forced_remove) ==
    containers_remove \/ containers_remove_no_prompt \/ forced_remove

\* Line 521
remove_wanted(containers_remove, containers_remove_no_prompt, startup_remove, forced_remove) ==
    containers_remove \/ containers_remove_no_prompt \/ startup_remove
        \/ forced_remove

\* Lines 1304-1313 and 465-503: main() calls containers_stop_remove, for a
\* clean-up or as the refresh before a deployment (startup_remove); the
\* containers are listed, the function returns when there is none and it is
\* no refresh, and --contRemove asks for consent.
ContainersStopRemove ==
    /\ pc = "clean_up"
    /\ cleans_up(flags) \/ refreshes(flags)
    /\ LET startup_remove == ~cleans_up(flags)
           containers == docker_cont_list(engine, senzing_proj_name)
           entered ==
               [run |-> teardown.run, invocations |-> teardown.invocations + 1,
                containers_remove |-> flags.contRemove,
                containers_remove_no_prompt |-> flags.contRemoveNoPrompt,
                startup_remove |-> startup_remove, forced_remove |-> FALSE,
                listed |-> containers, todo |-> <<>>, declined |-> FALSE]
       IN  IF returns_early(containers, startup_remove)
           THEN teardown' = entered /\ Returns(startup_remove)
           ELSE \E answer \in IF flags.contRemove THEN PromptAnswers ELSE {<<>>} :
                IF flags.contRemove /\ answer \notin Consents
                THEN teardown' = [entered EXCEPT !.declined = TRUE] /\ Ends("exit0")
                ELSE /\ teardown' = [entered EXCEPT !.todo = containers]
                     /\ Goes("stop_remove")
    /\ UNCHANGED <<flags, engine, engine_calls, started, failures>>
    /\ UNCHANGED <<deployment, packaging>>

\* Every container the filter listed taken as the project's.
is_listed_container(cont_name, names) == TRUE

\* Line 509: cont_name in project_container_names
is_project_container(cont_name, names) == cont_name \in names

\* Lines 505-529: one turn of the loop over the containers listed. A
\* project container is stopped, and removed when removal is wanted; an
\* APIError of either call is printed and the loop goes on.
StopRemove ==
    /\ pc = "stop_remove"
    /\ teardown.todo # <<>>
    /\ \E stopped, removed \in Booleans :
        LET cont_name == Head(teardown.todo)
            removes == remove_wanted(teardown.containers_remove,
                                     teardown.containers_remove_no_prompt,
                                     teardown.startup_remove, teardown.forced_remove)
        IN  /\ teardown' = [teardown EXCEPT !.todo = Tail(@)]
            /\ IF is_project_container(cont_name, project_container_names)
               THEN /\ removed \/ removes
                    /\ Fails(Cost(~stopped) + Cost(~removed))
                    /\ engine_calls' =
                        engine_calls \o <<Call("stop", cont_name)>>
                            \o (IF removes THEN <<Call("remove", cont_name)>> ELSE <<>>)
                    /\ engine' = [engine EXCEPT !.containers =
                                    IF removes /\ removed THEN @ \ {cont_name} ELSE @]
               ELSE /\ stopped /\ removed
                    /\ UNCHANGED <<engine, engine_calls, failures>>
    /\ Goes("stop_remove")
    /\ UNCHANGED <<flags, started>>
    /\ UNCHANGED <<deployment, packaging>>

\* Lines 531-539, after the loop: a clean-up with removal removes the first
\* network listed for the name, any exception suppressed; the function
\* returns.
RemoveNetwork ==
    /\ pc = "stop_remove"
    /\ teardown.todo = <<>>
    /\ LET network_list == networks_list(engine, DockNet)
       IN  IF (teardown.containers_remove \/ teardown.containers_remove_no_prompt)
              /\ network_list # {}
           THEN \E first \in network_list, ok \in Booleans :
                /\ Fails(Cost(~ok))
                /\ engine_calls' = Append(engine_calls, Call("network_remove", first))
                /\ engine' = [engine EXCEPT !.networks =
                                IF ok THEN @ \ {first} ELSE @]
           ELSE UNCHANGED <<engine, engine_calls, failures>>
    /\ Returns(teardown.startup_remove)
    /\ UNCHANGED <<flags, teardown, started>>
    /\ UNCHANGED <<deployment, packaging>>

\* A run with --info, --logs, --saveImages, --loadImages or --imagesList
\* and no clean-up option: nothing is cleaned up.
NoCleanUp ==
    /\ pc = "clean_up"
    /\ ~cleans_up(flags) /\ ~refreshes(flags)
    /\ Goes("modes")
    /\ UNCHANGED <<flags, engine, teardown, engine_calls, started, failures>>
    /\ UNCHANGED <<deployment, packaging>>

\* Lines 1316-1369: load_images, containers_info, container_logs,
\* save_images and list_image_names each end the run; a deployment goes on.
Modes ==
    /\ pc = "modes"
    /\ IF creates_network(flags) THEN Goes("prepare")
       ELSE Ends("exit0")
    /\ UNCHANGED <<flags, engine, teardown, engine_calls, started, failures>>
    /\ UNCHANGED <<deployment, packaging>>

\* Lines 1337-1482, the part of a deployment before the first docker_run,
\* by its outcome: the run ends or reaches line 1484.
Prepare ==
    /\ pc = "prepare"
    /\ \E ok \in Booleans :
        /\ Fails(Cost(~ok))
        /\ IF ok THEN Goes("first_run") ELSE Ends("exit1")
    /\ UNCHANGED <<flags, engine, teardown, engine_calls, started>>
    /\ UNCHANGED <<deployment, packaging>>

\* Lines 1484 and 441-445: the first containers.run of the run. The engine
\* refuses a name in use and a network it does not have (APIError).
FirstRun ==
    /\ pc = "first_run"
    /\ engine_calls' = Append(engine_calls, Call("run", containername("restapi")))
    /\ IF containername("restapi") \in engine.containers \/ DockNet \notin engine.networks
       THEN engine' = engine /\ Ends("exit1")
       ELSE /\ engine' = [engine EXCEPT !.containers = @ \cup {containername("restapi")}]
            /\ Goes("deployed")
    /\ UNCHANGED <<flags, teardown, started, failures>>
    /\ UNCHANGED <<deployment, packaging>>

\* The same command is run again on the engine as the run before left it.
RunAgain ==
    /\ pc \in {"done", "deployed"}
    /\ teardown.run < MaxRuns
    /\ teardown' = [NoTeardown EXCEPT !.run = teardown.run + 1]
    /\ engine_calls' = <<>>
    /\ pc' = "docker_net"
    /\ exit' = "none"
    /\ UNCHANGED <<flags, engine, started, failures>>
    /\ UNCHANGED <<deployment, packaging>>

\* Runs of the program on an engine holding any of the containers and
\* networks, up to the first docker_run of a deployment.
InitTeardown ==
    /\ pc = "docker_net"
    /\ exit = "none"
    /\ args = NoArgs
    /\ ini_json = CHOOSE c \in RunConfigs : TRUE
    /\ patched = NoPatch
    /\ printed = <<>>
    /\ net = NoNet
    /\ dc = InitialContainers
    /\ images = [k \in Services |-> {}]
    /\ cont = [k \in Services |-> NoContainer]
    /\ started = <<>>
    /\ pulled = <<>>
    /\ reported = {}
    /\ failures = 0
    /\ flags \in FlagSets
    /\ engine \in [containers : SUBSET ContainerNames, networks : SUBSET NetworkNames]
    /\ teardown = NoTeardown
    /\ engine_calls = <<>>
    /\ package = NoPackage
    /\ files = {}
    /\ target = {}

NextTeardown ==
    \/ DockerNet
    \/ ContainersStopRemove
    \/ StopRemove
    \/ RemoveNetwork
    \/ NoCleanUp
    \/ Modes
    \/ Prepare
    \/ FirstRun
    \/ RunAgain

SpecTeardown == InitTeardown /\ [][NextTeardown]_vars

\* ------------------------------------------------- packaging of images

\* Lines 1039-1076: docker_containers[k]['imagename']
imagename(k) ==
    CASE k = "restapi" -> <<"senzing", "/", "senzing-api-server">>
      [] k = "webapp"  -> <<"senzing", "/", "entity-search-web-app">>
      [] k = "swagger" -> <<"swaggerapi", "/", "swagger-ui">>

\* A tag as text in an image reference and a file name.
TagText(t) ==
    CASE t = Tag120 -> "1.2.0"
      [] t = Tag130 -> "1.3.0"
      [] t = TagLatest -> "latest"
      [] t = TagLatestRc -> "latest-rc"

\* imagename + ':' + tag
Ref(k, t) == imagename(k) \o <<":", TagText(t)>>
RefTags == {Tag120, Tag130, TagLatest, TagLatestRc}
\* A second repository name the API server's images are tagged with on this
\* system (docker tag senzing/senzing-api-server:T senzing-senzing-api-server:T).
LocalRef(t) == <<"senzing", "-", "senzing-api-server", ":", TagText(t)>>
RefsOf(k, t) == {Ref(k, t)} \cup (IF k = "restapi" THEN {LocalRef(t)} ELSE {})
KeyOf(image) == CHOOSE k \in Services : \E t \in RefTags : image \in RefsOf(k, t)
TagOf(image) == CHOOSE t \in RefTags : \E k \in Services : image \in RefsOf(k, t)

\* The lists --saveImages is given: references to the API server's image,
\* under either of its names, and the web app's.
Requests ==
    UNION {[1..n -> {Ref(k, t) : k \in {"restapi", "webapp"}, t \in {Tag130, TagLatest}}
                        \cup {LocalRef(Tag130)}] : n \in 0..MaxImages}

\* docker_client.images.get(image): the images carrying the reference; none
\* is ImageNotFound.
images_get(store, image) ==
    {img \in store[KeyOf(image)] : TagOf(image) \in TagsOf(img)}

RECURSIVE pull_and_check(_, _, _, _, _)
\* Lines 672-683 over the rest of the list: [status, store, avail].
pull_and_check(store, list, access_dockerhub, force_pull, out) ==
    IF list = <<>> THEN [status |-> "ok", store |-> store, avail |-> <<>>]
    ELSE LET image == Head(list)
             p == IF access_dockerhub
                  THEN docker_pull(store, KeyOf(image), TagOf(image), force_pull,
                                   out[KeyOf(image)]).store
                  ELSE store
             r == pull_and_check(p, Tail(list), access_dockerhub, force_pull, out)
         IN  IF images_get(p, image) = {}
             THEN [status |-> "exit1", store |-> p, avail |-> <<>>]
             ELSE [r EXCEPT !.avail = <<image>> \o @]

\* The greatest of all the tags of a name's images.
default_images_of_all_tags(store) ==
    LET newest(k) == Greatest(UNION {TagsOf(img) : img \in store[k]})
        order == <<"webapp", "restapi", "swagger">>
        present == SelectSeq(order, LAMBDA k : store[k] # {})
    IN  [i \in DOMAIN present |-> Ref(present[i], newest(present[i]))]

\* Lines 692-714: of each base image name with local images the greatest
\* reference among the first tags, in the order of the sorted list.
default_images(store) ==
    LET newest(k) == Greatest({img[1] : img \in store[k]})
        order == <<"webapp", "restapi", "swagger">>
        present == SelectSeq(order, LAMBDA k : store[k] # {})
    IN  [i \in DOMAIN present |-> Ref(present[i], newest(present[i]))]

\* Line 723, without the package path
package_file(image) ==
    <<"SzGoPackage-">>
        \o ReplaceAll(ReplaceAll(image, <<"/">>, <<"-">>), <<":">>, <<"-">>)
        \o <<".tar">>

\* Keeping the reference asked for as the name of the export.
save_named_as_asked(store, image) ==
    [image |-> CHOOSE img \in images_get(store, image) : TRUE, name |-> image]

\* Lines 728-731: images.get(image).save(named=True). The export keeps the
\* first tag of the image as its name.
save_named(store, image) ==
    LET img == CHOOSE i \in images_get(store, image) : TRUE
    IN  [image |-> img, name |-> Ref(KeyOf(image), img[1])]

\* open(name, 'wb') and the writes: the file has this content afterwards.
Written(fs, name, content) ==
    {f \in fs : f.name # name} \cup {[name |-> name, content |-> content]}
FileNames(fs) == {f.name : f \in fs}

pack_vars == <<args, ini_json, patched, printed, dc, cont, started, pulled, reported>>

\* save_images, lines 654-718: the images to package are pulled and
\* checked, or the newest local base images are taken.
SaveImages ==
    /\ pc = "save_images"
    /\ \E out \in [Services -> {"PULLED", "NotFound"}] :
        LET custom == pull_and_check(images, package.save_images, net.access_dockerhub,
                                     args.forcePull, out)
            base == IF net.access_dockerhub
                    THEN pull_default_images(dc, images, <<>>, args, args.forcePull,
                                             out, ServiceOrder)
                    ELSE [status |-> "ok", dc |-> dc, store |-> images, pulled |-> <<>>]
            r == IF package.save_images # <<>> THEN custom
                 ELSE [status |-> base.status, store |-> base.store,
                       avail |-> default_images(base.store)]
        IN  /\ net.access_dockerhub \/ out = [k \in Services |-> "PULLED"]
            /\ Fails(Cardinality({k \in Services : out[k] = "NotFound"}))
            /\ images' = r.store
            /\ IF r.status # "ok" THEN package' = package /\ Ends(r.status)
               ELSE IF r.avail = <<>> THEN package' = package /\ Ends("exit1")
               ELSE /\ package' = [package EXCEPT !.avail_images_with_tag = r.avail,
                                                  !.todo = r.avail]
                    /\ Goes("save_write")
    /\ UNCHANGED <<net, flags, files, target>>
    /\ UNCHANGED <<pack_vars, engine, teardown, engine_calls>>

\* Lines 722-734: one image is written to its file; a missing package path
\* (FileNotFoundError) ends the run.
WriteImage ==
    /\ pc = "save_write"
    /\ package.todo # <<>>
    /\ \E ok \in Booleans :
        LET image == Head(package.todo)
        IN  /\ Fails(Cost(~ok))
            /\ package' = [package EXCEPT !.todo = Tail(@),
                            !.packaged_files = Append(@, package_file(image))]
            /\ IF ok
               THEN /\ files' = Written(files, package_file(image),
                                        save_named(images, image))
                    /\ Goes("save_write")
               ELSE files' = files /\ Ends("exit1")
    /\ UNCHANGED <<net, flags, images, target>>
    /\ UNCHANGED <<pack_vars, engine, teardown, engine_calls>>

\* Lines 736-741: every image is written, tarfile.open creates the
\* compressed archive.
CreateArchive ==
    /\ pc = "save_write"
    /\ package.todo = <<>>
    /\ package' = [package EXCEPT !.todo = package.packaged_files, !.archive = <<>>]
    /\ Goes("save_add")
    /\ UNCHANGED <<net, flags, images, files, target, failures>>
    /\ UNCHANGED <<pack_vars, engine, teardown, engine_calls>>

\* The archive left as it is.
tar_add_nothing(archive, fs, name) == archive

\* Line 744: tar.add(name, arcname=Path(name).name) of a file that exists.
tar_add(archive, fs, name) ==
    Append(archive, CHOOSE f \in fs : f.name = name)

\* Lines 742-748: one turn of the loop: the file is added to the archive and
\* removed; a file that is not there ends the run.
AddImage ==
    /\ pc = "save_add"
    /\ package.todo # <<>>
    /\ LET name == Head(package.todo)
       IN  IF name \notin FileNames(files)
           THEN /\ package' = [package EXCEPT !.todo = Tail(@)]
                /\ files' = files
                /\ Ends("exit1")
           ELSE /\ package' = [package EXCEPT !.todo = Tail(@),
                                !.archive = tar_add(@, files, name)]
                /\ files' = {f \in files : f.name # name}
                /\ Goes("save_add")
    /\ UNCHANGED <<net, flags, images, target, failures>>
    /\ UNCHANGED <<pack_vars, engine, teardown, engine_calls>>

\* Lines 750-752 and 1364: the archive is closed, the run ends.
SaveDone ==
    /\ pc = "save_add"
    /\ package.todo = <<>>
    /\ package' = [package EXCEPT !.saved = TRUE]
    /\ Ends("exit0")
    /\ UNCHANGED <<net, flags, images, files, target, failures>>
    /\ UNCHANGED <<pack_vars, engine, teardown, engine_calls>>

\* tar.extractall: of members with one name the last one is kept.
extractall(archive) ==
    {archive[i] : i \in {j \in DOMAIN archive :
        \A l \in DOMAIN archive : archive[l].name = archive[j].name => l <= j}}

\* Lines 1316-1317 and 758-769: a run with --loadImages on the system the
\* archive of a finished export was moved to: the archive is extracted into
\* a new directory; a missing archive ends the run.
LoadImages ==
    /\ pc = "done"
    /\ package.saved
    /\ flags.saveImages
    /\ flags' = [NoFlags EXCEPT !.loadImages = TRUE]
    /\ \E ok \in Booleans :
        /\ Fails(Cost(~ok))
        /\ IF ok
           THEN /\ package' = [package EXCEPT !.extracted = extractall(package.archive),
                                              !.extract_path = TRUE]
                /\ pc' = "load_images"
                /\ exit' = "none"
           ELSE package' = package /\ Ends("exit1")
    /\ UNCHANGED <<net, images, files, target>>
    /\ UNCHANGED <<pack_vars, engine, teardown, engine_calls>>

\* Lines 771-778: one file of the directory, in the order of os.scandir, is
\* given to images.load, which may fail.
LoadImage ==
    /\ pc = "load_images"
    /\ \E image_file \in package.extracted \ {f \in package.extracted :
                                                \E i \in DOMAIN package.loaded :
                                                    package.loaded[i] = f} :
       \E ok \in Booleans :
        /\ Fails(Cost(~ok))
        /\ package' = [package EXCEPT !.loaded = Append(@, image_file)]
        /\ IF ok
           THEN target' = target \cup {image_file.content.name} /\ Goes("load_images")
           ELSE target' = target /\ Ends("exception")
    /\ UNCHANGED <<net, flags, images, files>>
    /\ UNCHANGED <<pack_vars, engine, teardown, engine_calls>>

\* Line 782: os.remove of a path that is a directory raises OSError
\* (IsADirectoryError), the directory stays as it was.
os_remove(is_dir, exists) == IF is_dir THEN exists ELSE FALSE

\* Lines 780-782 and 1318: the removal of the directory under
\* suppress(Exception); the run ends.
LoadDone ==
    /\ pc = "load_images"
    /\ \A f \in package.extracted : \E i \in DOMAIN package.loaded : package.loaded[i] = f
    /\ package' = [package EXCEPT !.extract_path = os_remove(TRUE, @)]
    /\ Ends("exit0")
    /\ UNCHANGED <<net, flags, images, files, target, failures>>
    /\ UNCHANGED <<pack_vars, engine, teardown, engine_calls>>

\* The stores an export can find: those of a deployment, and an API server
\* image whose first tag is not its greatest.
PackStores ==
    Stores \cup {[k \in Services |->
                    IF k = "restapi" THEN {<<Tag130, TagLatest>>} ELSE {}]}

\* A run with --saveImages, from line 1362 on, and a run with --loadImages
\* on the archive it made.
InitPackage ==
    /\ pc = "save_images"
    /\ exit = "none"
    /\ args \in {a \in ArgSets : a.skipHealth = FALSE
                    /\ \A k \in Services : Override(a, k) = NoTag}
    /\ ini_json = CHOOSE c \in RunConfigs : TRUE
    /\ patched = NoPatch
    /\ printed = <<>>
    /\ net \in {[NoNet EXCEPT !.access_dockerhub = b] : b \in Booleans}
    /\ dc = [k \in Services |-> [InitialContainers[k] EXCEPT !.tag = Tag130]]
    /\ images \in PackStores
    /\ cont = [k \in Services |-> NoContainer]
    /\ started = <<>>
    /\ pulled = <<>>
    /\ reported = {}
    /\ failures = 0
    /\ flags = [NoFlags EXCEPT !.saveImages = TRUE]
    /\ engine = NoEngine
    /\ teardown = NoTeardown
    /\ engine_calls = <<>>
    /\ package \in {[NoPackage EXCEPT !.save_images = l] : l \in Requests}
    /\ files = {}
    /\ target = {}

NextPackage ==
    \/ SaveImages
    \/ WriteImage
    \/ CreateArchive
    \/ AddImage
    \/ SaveDone
    \/ LoadImages
    \/ LoadImage
    \/ LoadDone

SpecPackage == InitPackage /\ [][NextPackage]_vars

\* ---------------------------------------------------- reading a connection

\* The connection value of the configuration the run was given.
BaseConn == ini_json.SQL.connection

HasColon(c) == \E i \in DOMAIN c : c[i] = ":"
\* What precedes the first ":" and what follows it.
SchemeOf(c) == SubSeq(c, 1, IndexOf(c, ":") - 1)
AfterColon(c) == SubSeq(c, IndexOf(c, ":") + 1, Len(c))
HasAt(c) == \E i \in DOMAIN c : c[i] = "@"
\* A value of the form scheme:credentials@path
WellFormed(c) == HasColon(c) /\ HasAt(AfterColon(c))
\* The path written after the first "@" that follows the scheme.
WrittenPath(c) == SubSeq(AfterColon(c), IndexOf(AfterColon(c), "@") + 1, Len(AfterColon(c)))
\* The directory that holds the database file, as the host names it.
DirectoryOf(c) == PathStr(Parent(Resolve(WrittenPath(c))))

IsSqlite(ini) ==
    HasColon(ini.SQL.connection) /\ Lower(SchemeOf(ini.SQL.connection)) = <<"sqlite3">>
Sharded(ini) == ini.SQL.backend # NoValue /\ Lower(ini.SQL.backend) = <<"hybrid">>
\* The connection values the co-location rule looks at: the clusters the
\* [HYBRID] section refers to and the base connection.
CheckedConns(ini) ==
    {ini.SQL.connection}
        \cup (IF Sharded(ini) THEN {ini.CLUSTER[ini.HYBRID[i]] : i \in DOMAIN ini.HYBRID}
              ELSE {})
Directories(ini) == {DirectoryOf(c) : c \in CheckedConns(ini)}
Listed == {printed[i] : i \in DOMAIN printed}

\* ------------------------------------------------------------------ claims

Divergent(ini) ==
    /\ IsSqlite(ini)
    /\ Sharded(ini)
    /\ \A c \in CheckedConns(ini) : WellFormed(c)
    /\ Cardinality(Directories(ini)) >= 2

\* C1: a sharded sqlite3 configuration whose base and shard files lie in at
\* least two distinct directories ends the translation with exit status 1,
\* and the listing names every distinct directory exactly once.
C1_DivergentDirectoriesListed ==
    (pc # "patch_ini" /\ Divergent(ini_json)) =>
        /\ pc = "done"
        /\ exit = "exit1"
        /\ patched = NoPatch
        /\ Listed = Directories(ini_json)
        /\ Len(printed) = Cardinality(Directories(ini_json))

\* Three files in two directories: one directory is held by two of them.
C1_Witness ==
    /\ pc = "done"
    /\ Divergent(ini_json)
    /\ Cardinality(CheckedConns(ini_json)) = 3
    /\ Len(printed) = 2

CoLocated(ini) ==
    /\ IsSqlite(ini)
    /\ \A c \in CheckedConns(ini) : WellFormed(c)
    /\ Cardinality(Directories(ini)) = 1

\* C2: a sqlite3 configuration whose base file and shard files lie in one
\* directory is translated, and the volume binding returned binds that
\* directory to /var/opt/senzing, read-write.
C2_CommonDirectoryBound ==
    (pc # "patch_ini" /\ CoLocated(ini_json)) =>
        /\ pc = "db_checks"
        /\ exit = "none"
        /\ patched.mount =
            [host |-> DirectoryOf(BaseConn),
             bind |-> <<"/", "var", "/", "opt", "/", "senzing">>,
             mode |-> "rw"]

\* A sharded configuration whose files are written under different names of
\* one directory.
C2_Witness ==
    /\ pc = "db_checks"
    /\ CoLocated(ini_json)
    /\ Sharded(ini_json)
    /\ Cardinality({WrittenPath(c) : c \in CheckedConns(ini_json)}) = 3
    /\ Cardinality({Parent(Segments(WrittenPath(c))) : c \in CheckedConns(ini_json)}) > 1
    /\ patched.mount.host = <<"/", "d">>

\* Positions of main() before the translation, after it, and after the
\* tags were resolved.
BeforeTranslation == {"internet_access", "versions", "images", "patch_ini"}
AfterTranslation ==
    {"db_checks", "write_ini", "run_restapi", "health_restapi", "api_spec",
     "run_webapp", "health_webapp", "run_swagger", "health_swagger", "report"}
AfterResolution == AfterTranslation \cup {"patch_ini"}
Completed == pc = "done" /\ exit = "ok"
Optional == Services \ {"restapi"}

\* The backend types the program names.
RecognizedTypes ==
    {<<"sqlite3">>, <<"mysql">>, <<"db2">>, <<"mssql">>, <<"postgresql">>}
Unrecognized(c) == HasColon(c) /\ Lower(SchemeOf(c)) \notin RecognizedTypes
Mssql(c) == HasColon(c) /\ SchemeOf(c) = <<"mssql">>

MissingColon == ~HasColon(BaseConn)
SqliteMissingAt == IsSqlite(ini_json) /\ ~HasAt(AfterColon(BaseConn))
OtherBackend == HasColon(BaseConn) /\ ~IsSqlite(ini_json)

C5_OverrideAlwaysUsed ==
    /\ \A i \in DOMAIN started :
        Override(args, started[i].svc) # NoTag =>
            started[i].tag = Override(args, started[i].svc)
    /\ \A i \in DOMAIN pulled :
        Override(args, pulled[i].svc) # NoTag =>
            pulled[i].tag = Override(args, pulled[i].svc)

\* The manifest's tag for service k, NoTag when the manifest was not read or
\* has no entry.
ManifestTag(k) ==
    IF net.access_versions /\ net.versions[k] \notin {NoTag, <<0>>} THEN net.versions[k]
    ELSE NoTag
\* Every tag of the local images of service k.
LocalTags(k) == UNION {TagsOf(img) : img \in images[k]}
IsGreatest(t, T) == t \in T /\ \A u \in T : u = t \/ StrLess(u, t)

Compared(k) ==
    LET firsts == {img[1] : img \in images[k]}
    IN  IF Cardinality(images[k]) > 1 THEN {t \in firsts : ~Contains(t, TagLatest)}
        ELSE firsts

C7_ManifestTagStarted ==
    \A i \in DOMAIN started :
        (Override(args, started[i].svc) = NoTag /\ ManifestTag(started[i].svc) # NoTag) =>
            started[i].tag = ManifestTag(started[i].svc)

\* C7, amended: the same when the image registry could be reached, for the
\* pull as for the start.
C7_ManifestTagStartedWithRegistry ==
    /\ \A i \in DOMAIN started :
        (/\ Override(args, started[i].svc) = NoTag
         /\ ManifestTag(started[i].svc) # NoTag
         /\ net.access_dockerhub) =>
            started[i].tag = ManifestTag(started[i].svc)
    /\ \A i \in DOMAIN pulled :
        (Override(args, pulled[i].svc) = NoTag /\ ManifestTag(pulled[i].svc) # NoTag) =>
            pulled[i].tag = ManifestTag(pulled[i].svc)

\* The manifest's tag was pulled, other tags being present, and started.
C7_Witness ==
    /\ started # <<>>
    /\ pulled # <<>>
    /\ Override(args, "restapi") = NoTag
    /\ net.access_dockerhub
    /\ ManifestTag("restapi") = Tag130
    /\ pulled[1] = [svc |-> "restapi", tag |-> Tag130, out |-> "PULLED"]
    /\ started[1] = [svc |-> "restapi", tag |-> Tag130]
    /\ <<TagLatest>> \in images["restapi"]

\* The container of k was running, reported health, and was not healthy when
\* the wait ended.
Unhealthy(k) == cont[k].running = "running" /\ cont[k].warned

C10_NotRunningAborts ==
    \A k \in Services :
        cont[k].running \notin {"none", "running"} =>
            (cont[k].logs /\ pc = "done" /\ exit = "exit1")

PullFailed(k) == \E i \in DOMAIN pulled : pulled[i].svc = k /\ pulled[i].out = "NotFound"
StartCalled(k) == \E i \in DOMAIN started : started[i].svc = k

\* C17 as stated: with the registry reachable, a pull answered NotFound ends
\* the run before any start call when the image is the API server's, and
\* leaves the service without a start call when the image is optional.
C17_FailedPullNeverStarted ==
    /\ PullFailed("restapi") => (pc = "done" /\ exit # "ok" /\ started = <<>>)
    /\ \A k \in Optional : PullFailed(k) => ~StartCalled(k)

\* The run looked for local images: lines 1372-1381 are behind.
AfterImages == dc["restapi"].imageavailable # "None"
Unreachable == AfterImages /\ ~net.access_dockerhub

\* C18: with the registry unreachable, a run that finds no local API server
\* image ends with status 1 before any start call; an optional service
\* without a local image is never started, and at its turn the run goes on
\* with what follows.
C18_UnreachableRegistryUsesLocalImages ==
    /\ []((Unreachable /\ images["restapi"] = {}) =>
            (pc = "done" /\ exit = "exit1" /\ started = <<>>))
    /\ [](\A k \in Optional :
            (Unreachable /\ images[k] = {}) => ~StartCalled(k))
    /\ [][\A k \in Optional :
            (pc = RunPc[k] /\ ~net.access_dockerhub /\ images[k] = {}) =>
                (pc' = NextAfter(k) /\ exit' = "none" /\ started' = started)]_vars

\* A run without registry that completed: the API server was started from a
\* local image, the optional services, without images, were not.
C18_Witness ==
    /\ Unreachable
    /\ Completed
    /\ images["restapi"] # {}
    /\ \A k \in Optional : images[k] = {} /\ ~Skipped(args, k)
    /\ Len(started) = 1
    /\ started[1].svc = "restapi"
    /\ reported = {"restapi"}

\* The run ended at the check of line 1392, nothing started.
C18_WitnessNoApiImage ==
    /\ Unreachable
    /\ images["restapi"] = {}
    /\ pc = "done"
    /\ exit = "exit1"

\* ------------------------------------------------ clean-up and network

Issued(op, name) == {i \in DOMAIN engine_calls : engine_calls[i] = Call(op, name)}
IssuedOp(op) == {i \in DOMAIN engine_calls : engine_calls[i].op = op}
InList(seq, x) == \E i \in DOMAIN seq : seq[i] = x
\* Before the call at position r, c was stopped and then its removal issued.
StoppedThenRemoved(c, r) ==
    \E i \in Issued("stop", c), j \in Issued("remove", c) : i < j /\ j < r

\* C12: a run that issues a container start has called containers_stop_remove
\* exactly once before, as the refresh and without any clean-up option; the
\* call took every existing container with one of the project's three names
\* into its loop, and each was stopped and its removal issued before the
\* start.
C12_RefreshBeforeFirstStart ==
    /\ [](\A r \in IssuedOp("run") :
            /\ teardown.invocations = 1
            /\ teardown.startup_remove
            /\ ~cleans_up(flags)
            /\ \A c \in project_container_names :
                InList(teardown.listed, c) => StoppedThenRemoved(c, r))
    /\ [][(pc = "clean_up" /\ creates_network(flags)) =>
            (/\ pc' = "stop_remove"
             /\ \A c \in project_container_names \cap engine.containers :
                    InList(teardown'.todo, c))]_vars

\* A deployment: the three containers of the project and the one of
\* project p2 were listed, the project's were stopped and removed, the API
\* server was started anew.
C12_Witness ==
    /\ pc = "deployed"
    /\ ~cleans_up(flags)
    /\ Len(teardown.listed) = 4
    /\ Len(engine_calls) = 7
    /\ engine_calls[7] = Call("run", containername("restapi"))
    /\ <<"SzGo-API-", "p", "2">> \in engine.containers

\* C13: a call of containers_stop_remove that lists no container for the
\* project issues no container stop, no container removal and no network
\* removal, in a clean-up of any kind and in the refresh, the first time and
\* when the command is run again.
C13_NothingListedNothingDone ==
    (teardown.invocations = 1 /\ teardown.listed = <<>>) =>
        (IssuedOp("stop") \cup IssuedOp("remove") \cup IssuedOp("network_remove") = {})

\* --contRemoveNoPrompt run twice with no container of the project, the
\* network there: both runs ended, nothing called.
C13_Witness ==
    /\ teardown.run = 2
    /\ teardown.invocations = 1
    /\ teardown.listed = <<>>
    /\ flags.contRemoveNoPrompt
    /\ DockNet \in engine.networks
    /\ pc = "done"
    /\ engine_calls = <<>>

\* C14: a container's removal is issued only in a clean-up with removal or
\* in the refresh, and only after the stop of that container was issued;
\* with --contStop no container and no network is removed.
C14_RemoveOnlyOnRequestAfterStop ==
    /\ \A j \in IssuedOp("remove") :
        /\ flags.contRemove \/ flags.contRemoveNoPrompt \/ teardown.startup_remove
        /\ \E i \in Issued("stop", engine_calls[j].name) : i < j
    /\ flags.contStop => IssuedOp("remove") \cup IssuedOp("network_remove") = {}

\* --contRemove, consent given: three containers stopped and removed, then
\* the network.
C14_Witness ==
    /\ flags.contRemove
    /\ pc = "done"
    /\ Len(engine_calls) = 7
    /\ \A c \in project_container_names : StoppedThenRemoved(c, 7)
    /\ engine_calls[7] = Call("network_remove", DockNet)

\* --contStop: three containers stopped, all still there, and the network.
C14_WitnessStopOnly ==
    /\ flags.contStop
    /\ pc = "done"
    /\ Len(engine_calls) = 3
    /\ project_container_names \subseteq engine.containers
    /\ DockNet \in engine.networks

\* C15 as stated: after a clean-up with removal that was not declined, the
\* removal of the project's network was issued if the network is there,
\* also when no container was listed.
C15_FullRemovalRemovesNetwork ==
    (/\ pc = "done"
     /\ teardown.invocations = 1
     /\ flags.contRemove \/ flags.contRemoveNoPrompt
     /\ ~teardown.declined
     /\ DockNet \in engine.networks) =>
        Issued("network_remove", DockNet) # {}

\* C16 as stated: docker_net issues a network create exactly when the engine
\* has no network of that name, and after a create that succeeded the
\* network is there.
C16_NetworkCreatedIffAbsent ==
    [][(pc = "docker_net" /\ creates_network(flags)) =>
        (/\ (DockNet \notin engine.networks) <=>
                (engine_calls' = Append(engine_calls, Call("network_create", DockNet)))
         /\ pc' = "clean_up" => DockNet \in engine'.networks)]_vars

\* ------------------------------------------------- packaging of images

Exported == {package.avail_images_with_tag[i] : i \in DOMAIN package.avail_images_with_tag}
Loaded == {package.loaded[i].content : i \in DOMAIN package.loaded}
Intermediates == {package.packaged_files[i] : i \in DOMAIN package.packaged_files}
Members == {package.archive[i] : i \in DOMAIN package.archive}
ImportCompleted == flags.loadImages /\ pc = "done" /\ exit = "exit0"

\* C19 as stated: after an export and an import of its archive that both
\* completed, the export of every reference exported was given to
\* images.load and every such reference is in the image store.
C19_RoundTripRestoresReferences ==
    ImportCompleted =>
        \A image \in Exported :
            /\ save_named(images, image) \in Loaded
            /\ image \in target

\* C20: when the archive is created every image exported has its
\* intermediate file; a file removed during the export is a member of the
\* archive by then; after a completed export none of the intermediate files
\* is there.
C20_IntermediatesArchivedThenRemoved ==
    /\ [][(pc = "save_write" /\ pc' = "save_add") =>
            \A image \in Exported : package_file(image) \in FileNames(files)]_vars
    /\ [][\A f \in files \ files' :
            \E i \in DOMAIN package'.archive : package'.archive[i] = f]_vars
    /\ [](package.saved => Intermediates \cap FileNames(files) = {})

\* An export of two images completed: two members, no file left.
C20_Witness ==
    /\ package.saved
    /\ flags.saveImages
    /\ Len(package.archive) = 2
    /\ package.archive[1].name # package.archive[2].name
    /\ Len(package.save_images) = 2
    /\ files = {}

\* The export takes the default set and the images are chosen.
DefaultSetTaken ==
    /\ flags.saveImages
    /\ package.save_images = <<>>
    /\ package.avail_images_with_tag # <<>>
AllTags(k) == UNION {TagsOf(img) : img \in images[k]}
FirstTags(k) == {img[1] : img \in images[k]}

LoadEnded == flags.loadImages /\ pc = "done" /\ package.extracted # {}

\* C22: once load_images has ended, whether every load succeeded or a load
\* failed and ended the import, the directory the archive was extracted into
\* does not exist any more.
C22_ExtractDirGoneAfterLoad == LoadEnded => ~package.extract_path

\* ------------------------------------------------------ the status of aborts

\* A deployment run has ended before its report: on a sys.exit or on an
\* uncaught exception.
Aborted == pc = "done" /\ exit # "ok"

\* C23: every run that aborts on an error (configuration, shard directories,
\* a required image that is not there or cannot be pulled, a failed container
\* start, the API specification) ends with an exit status other than zero.
C23_AbortsWithNonZeroStatus == Aborted => exit \in {"exit1", "exception"}

\* ------------------------------------------ the written configuration file

\* The translated configuration is on disk under the name derived from the
\* configuration file's, with these permissions.
IniJsonWritten(mode) ==
    \E f \in files :
        /\ f.name = ini_json_file(ini_file_name)
        /\ f.content.json = patched.ini
        /\ f.content.mode = mode

\* C24: when the start call of the API server's container is issued, the
\* translated configuration has been written to the file named after the
\* configuration file and its permissions are owner read and write; a run in
\* which ownership or permissions could not be set has ended with no start
\* call at all.
C24_ConfigWrittenBeforeApiStart ==
    /\ StartCalled("restapi") => IniJsonWritten(S_IRUSR_IWUSR)
    /\ IniJsonWritten(CreatedMode) => (pc = "done" /\ exit = "exit1" /\ started = <<>>)

C24_Witness ==
    /\ StartCalled("restapi")
    /\ IniJsonWritten(S_IRUSR_IWUSR)
    /\ cont["restapi"].run = "called"

C24_WitnessRefused == IniJsonWritten(CreatedMode) /\ pc = "done"

\* ------------------------------------------------- export and import runs

\* A run with --saveImages or --loadImages and none of the clean-up options.
PackagingRun == (flags.saveImages \/ flags.loadImages) /\ ~cleans_up(flags)

\* C25: a run that exports or imports images, with no clean-up option,
\* issues no call that creates or removes a network and none that stops,
\* removes or starts a container: the engine's containers and networks are
\* left as they were found.
C25_PackagingRunsLeaveEngineAlone ==
    PackagingRun => (engine_calls = <<>> /\ started = <<>>)

C25_Witness ==
    /\ PackagingRun
    /\ pc = "done"
    /\ containername("restapi") \in engine.containers
    /\ network_missing(engine, DockNet)

\* ------------------------------------------------ containers after an abort

\* Containers of the run that containers.run has started.
StartedContainers == {k \in Services : cont[k].run = "called"}

\* C26: a deployment that ends on an error after it started containers
\* issues no stop and no remove call: the containers started before the
\* error are left as they were.
C26_AbortLeavesStartedContainers ==
    (Aborted /\ StartedContainers # {}) =>
        \A i \in DOMAIN engine_calls : engine_calls[i].op \notin {"stop", "remove"}

C26_Witness ==
    /\ Aborted
    /\ exit = "exit1"
    /\ cont["restapi"].run = "called"
    /\ cont["webapp"].running = "exited"

\* ------------------------------------------------- tags at the start calls

\* C27: when a start call is issued, whichever service it is for, each of
\* the three services has its one resolved image tag, and none of them is
\* null; the call is made with the tag of its service.
C27_TagsResolvedAtStart ==
    started # <<>> =>
        /\ \A k \in Services : dc[k].tag # NoTag
        /\ \A i \in DOMAIN started : started[i].tag = dc[started[i].svc].tag

C27_Witness ==
    /\ Len(started) = 3
    /\ net.access_versions
    /\ \A k \in Services : dc[k].tag = Tag130

\* ------------------------------------------------- the reachability check

\* Both internet_access calls have returned, on known outcomes.
AccessChecked == pc = "versions" /\ net.attempts # <<>>
\* One of the attempts the call can make finds the resource.
AnAttemptAnswers(o) == \E r \in 1..Retries : o[r]

\* C28: internet_access returns True whenever one of its attempts succeeds,
\* also when the first attempt fails and a retry succeeds, and returns
\* False only when every attempt failed.
C28_ReachableWhenAnAttemptSucceeds ==
    AccessChecked =>
        /\ net.access_versions = AnAttemptAnswers(net.attempts[1])
        /\ net.access_dockerhub = AnAttemptAnswers(net.attempts[2])

\* ------------------------------------------- containers of other projects

\* A container of another project whose name contains this project's name.
OtherProjectContainer == <<"SzGo-API-", "p", "2">>

ManifestLacks(k) ==
    /\ net.access_versions
    /\ net.versions # VersionsFailed
    /\ net.versions[k] = NoTag
    /\ Override(args, k) = NoTag
    /\ dc["restapi"].imageavailable = "None"

\* C30: with no override and a reachable manifest that has no entry for a
\* service, the resolution does not fail: the run goes on to the images with
\* the tag "latest" for that service.
C30_MissingEntryFallsBackToLatest ==
    \A k \in Services :
        ManifestLacks(k) => (pc = "images" /\ dc[k].tag = TagLatest)

\* ------------------------------------------- the specification for Swagger

\* The data of the API specification is in its file.
ApiSpecWritten ==
    \E f \in files : f.name = rest_json_file /\ f.content.json = ApiSpecData

\* C31: the start call of the Swagger container is issued only after the API
\* specification was fetched from the API server and written to its file;
\* when the fetch failed at every attempt the run has ended and no start
\* call of the web app or of Swagger was issued.
C31_SwaggerAfterApiSpecWritten ==
    /\ StartCalled("swagger") => (net.api_spec = "ok" /\ ApiSpecWritten)
    /\ net.api_spec = "exit1" =>
        /\ pc = "done" /\ exit = "exit1"
        /\ ~StartCalled("webapp") /\ ~StartCalled("swagger")

C31_Witness == StartCalled("swagger") /\ ApiSpecWritten /\ cont["swagger"].run = "called"

C31_WitnessFetchFailed == net.api_spec = "exit1" /\ StartCalled("restapi")

\* ------------------------------------------------ the order of the starts

\* The place of a service in the order API server, web app, Swagger.
Place(k) == CHOOSE i \in DOMAIN ServiceOrder : ServiceOrder[i] = k

\* docker_run has returned for service k: its waits are over, or none was
\* asked for.
WaitsFinished(k) == args.skipHealth \/ dc[k].startedok = "True"

\* C32: the start calls are issued one at a time in the order API server,
\* web app, Swagger: when the start call of a service is issued, the start
\* call of every service started before it is of an earlier place, and its
\* waits for status and health have finished.
C32_StartsInOrderOneAtATime ==
    \A i, j \in DOMAIN started :
        i < j => (Place(started[i].svc) < Place(started[j].svc)
                    /\ WaitsFinished(started[i].svc))

C32_Witness ==
    /\ pc = "health_swagger"
    /\ Len(started) = 3
    /\ ~args.skipHealth
    /\ dc["webapp"].startedok = "True"

\* ------------------------------------------------- the waits of docker_run

\* docker_run has returned to main(), or has ended the run.
RunReturned == pc = NextAfter("restapi") \/ pc = "done"
\* The turns the two waits of the API server's docker_run have made.
Turns(check) == cont["restapi"].turns[check]

\* The waits stay within their bounds: at most loop_cnt turns for 'running',
\* at most loop_cnt for 'healthy', these only after the wait for 'running'
\* and only for a container that reports health; none at all when health
\* checking is skipped.
WaitsBounded ==
    /\ Turns("running") <= loop_cnt
    /\ Turns("healthy") <= loop_cnt
    /\ args.skipHealth => (Turns("running") = 0 /\ Turns("healthy") = 0)
    /\ Turns("healthy") > 0 =>
        (cont["restapi"].answers.health /\ cont["restapi"].running \notin {"none", "exited"})

\* Taken turn by turn, each wait returns what status_wait returns on the
\* same answers, after as many turns.
WaitsAsStatusWait ==
    /\ cont["restapi"].running # "none" =>
        LET w == status_wait("running", cont["restapi"].answers.running)
        IN  cont["restapi"].running = w.ret /\ Turns("running") = w.polls
    /\ (dc["restapi"].startedok = "True" /\ Turns("healthy") > 0) =>
        LET w == status_wait("healthy", cont["restapi"].answers.healthy)
        IN  cont["restapi"].warned = (w.ret # "healthy") /\ Turns("healthy") = w.polls

C33_WitnessSkipped == RunReturned /\ args.skipHealth /\ StartCalled("restapi")

\* ------------------------------------------------------ the retry loops

NonDecreasing(seq) == \A i, j \in DOMAIN seq : i < j => seq[i] <= seq[j]
\* The calls have returned, or the run has ended.
FetchesOver == pc \in {"versions", "run_webapp", "done"}

\* Each call stays within its attempts; the pauses of get_api_spec do not
\* get shorter.
RetriesBounded ==
    /\ net.made[1] <= Retries /\ net.made[2] <= Retries
    /\ net.made[3] <= ApiSpecRetries
    /\ NonDecreasing(net.pauses)

\* What the calls end in: internet_access returns what the function of the
\* deployment model returns, False ('unavailable') after Retries failed
\* attempts, and the run goes on; get_api_spec ends as the function of the
\* deployment model does, and ends the run after ApiSpecRetries URL errors.
RetriesEnd ==
    /\ pc = "versions" =>
        /\ net.access_versions = internet_access(net.attempts[1], Retries)
        /\ net.access_dockerhub = internet_access(net.attempts[2], Retries)
        /\ net.made[1] = Retries => ~net.access_versions
    /\ net.api_spec # "None" =>
        /\ net.api_spec = get_api_spec(net.attempts[3], ApiSpecRetries)
        /\ Len(net.pauses) = ApiSpecRetries => (pc = "done" /\ exit = "exit1")

\* C34: the retry loops are bounded: internet_access makes at most 3
\* attempts and then reports the resource unavailable, get_api_spec makes at
\* most 5 attempts with pauses that never get shorter and then ends the run;
\* both always come to an end.
C34_RetryLoopsBounded ==
    /\ [](RetriesBounded /\ RetriesEnd)
    /\ <>FetchesOver

C34_Witness ==
    /\ pc = "done"
    /\ net.made[3] = ApiSpecRetries
    /\ net.pauses = <<5, 5, 5, 15, 20>>

C34_WitnessUnavailable ==
    pc = "versions" /\ net.made[1] = Retries /\ net.made[2] = Retries /\ ~net.access_dockerhub

\* ------------------------------------------------------ the fixed path keys

\* patch_ini_json has returned.
Translated == pc # "patch_ini" /\ patched # NoPatch

\* C35: in the configuration every successful patch_ini_json call returns,
\* whatever the backend type and the host directory, supportpath is
\* /opt/senzing/data, configpath is /etc/opt/senzing and resourcepath is
\* absent: the substitution of the host directory leaves them as set.
C35_FixedPathKeysCanonical ==
    Translated =>
        patched.ini.PIPELINE = [supportpath |-> DataPath, configpath |-> EtcPath]

\* ----------------------------------------------- the translated file paths

\* The path p names a file below the in-container mount point.
UnderMountPoint(p) ==
    /\ Len(p) > Len(MountPoint) + 1
    /\ SubSeq(p, 1, Len(MountPoint) + 1) = MountPoint \o <<"/">>

\* C36: after a successful translation of a sqlite3 configuration, the base
\* connection and every shard connection of the returned configuration name
\* a file under /var/opt/senzing and none names the host directory any more,
\* however the path was written (relative, through a symbolic link, with a
\* '..' segment).
C36_SqlitePathsUnderMountPoint ==
    (Translated /\ CoLocated(ini_json)) =>
        \A c \in CheckedConns(patched.ini) :
            /\ UnderMountPoint(WrittenPath(c))
            /\ DirectoryOf(c) # patched.mount.host

\* ------------------------------------------------ one entry per reference

\* The archive members that hold the export of a reference.
EntriesOf(image) ==
    {i \in DOMAIN package.archive :
        /\ package.archive[i].name = package_file(image)
        /\ package.archive[i].content.image \in images_get(images, image)}

\* Every image to export is written to its file: the archive is being made.
Archiving == flags.saveImages /\ pc = "save_add"

\* C37: two distinct references exported never have one intermediate file
\* name; an export whose images were all written to their files completes;
\* the archive of a completed export holds exactly one entry for every
\* reference exported, and every reference of the list given is exported.
C37_OneEntryPerReference ==
    /\ [](\A a, b \in Exported : a # b => package_file(a) # package_file(b))
    /\ [][Archiving => exit' # "exit1"]_vars
    /\ [](package.saved =>
            /\ \A image \in Exported : Cardinality(EntriesOf(image)) = 1
            /\ Len(package.archive) = Cardinality(Exported)
            /\ \A i \in DOMAIN package.save_images : package.save_images[i] \in Exported)

\* ------------------------------------------- the refresh before an abort

\* A deployment is at line 1337: the reachability checks, the pulls, the
\* look for local images and the translation are still to come.
Preparing == pc = "prepare"

\* A deployment ended with an error in that part, before any container start.
AbortedPreparing ==
    /\ pc = "done"
    /\ exit = "exit1"
    /\ creates_network(flags)
    /\ teardown.invocations = 1
    /\ IssuedOp("run") = {}

\* The refresh of this run is over: every container of the project it found
\* was stopped and then its removal issued, and there is none it did not
\* find; the containers are gone unless the engine failed.
TornDown ==
    /\ teardown.invocations = 1
    /\ teardown.startup_remove
    /\ teardown.todo = <<>>
    /\ \A c \in project_container_names :
        IF InList(teardown.listed, c)
        THEN StoppedThenRemoved(c, Len(engine_calls) + 1)
        ELSE c \notin engine.containers /\ Issued("stop", c) \cup Issued("remove", c) = {}
    /\ failures = 0 => project_container_names \cap engine.containers = {}

C38_WitnessRunAgain ==
    /\ AbortedPreparing
    /\ teardown.run = 2
    /\ teardown.listed = <<containername("restapi")>>
    /\ engine_calls =
        <<Call("stop", containername("restapi")), Call("remove", containername("restapi"))>>
    /\ engine.containers = {}

====
